---- MODULE Spec2Model ----
(***************************************************************************)
(* A model of the Student Result Analyzer: the Result Store behind         *)
(* UnifiedDatabaseManager (relational, document, JSON-file and built-in    *)
(* fallback backends), the account stores, the Metrics Engine and the      *)
(* Tabular Ingestion Adapter.                                              *)
(*                                                                         *)
(* Numbers: marks and grade points are integers (a grade point 7 stands    *)
(* for 7.0); a Total is kept in tenths of a mark so that 74.9 is 749.      *)
(* A mean is the exact fraction [num, den].                                *)
(***************************************************************************)
EXTENDS Integers, Sequences, FiniteSets, TLC

VARIABLES
    backend,      \* UnifiedDatabaseManager.db_type, refined by the ImportError branch
    pgForeignKey, \* student_results was created with FOREIGN KEY (username)
    pgUsers,      \* relational table users: username -> account row
    pgResults,    \* relational table student_results, in insertion order
    mgUsable,     \* MongoDBManager.db is a usable handle
    mgUsers,      \* document collection users, in insertion order
    mgResults,    \* document collection student_results, in insertion order
    jsData,       \* DatabaseManager.data of the live handle
    jsFile,       \* student_data.json: whether it exists, and its contents
    usersFile,    \* contents of users.json (auth.py and the fallback manager)
    lastOp,       \* the last operation, its arguments and what it returned
    ops,          \* number of operations performed
    user_data,    \* the list of semester records handed to PerformanceAnalytics
    metric,       \* the last Metrics Engine call and its result
    csvIn,        \* the table pd.read_csv produced from the uploaded file
    csvOut,       \* what parse_csv_file returned for it
    jsOther,      \* DatabaseManager.data of a second browser session's handle
    calls,        \* auth.create_user calls in flight: position, arguments, locals
    session_state \* st.session_state of one browser session

vars == <<backend, pgForeignKey, pgUsers, pgResults, mgUsable, mgUsers, mgResults,
          jsData, jsFile, usersFile, lastOp, ops, user_data, metric, csvIn, csvOut,
          jsOther, calls, session_state>>

storeVars == <<backend, pgForeignKey, pgUsers, pgResults, mgUsable, mgUsers,
               mgResults, jsData, jsFile, usersFile, lastOp, ops>>

metricVars == <<user_data, metric>>

csvVars == <<csvIn, csvOut>>

sessionVars == <<jsOther, calls, session_state>>

(***************************************************************************)
(* Bounds and input domains                                                *)
(***************************************************************************)
MaxOps == 3

MaxSemesters == 2

MaxCsvRows == 2

Users == {"alice", "bob"}

AcademicYears == {"2023-24", "2024-25"}

Semesters == {"Semester 1", "Semester 2"}

\* The (academic year, semester) selections under which the upload tab saves.
SavedKeys == {<<"2023-24", "Semester 2">>, <<"2024-25", "Semester 1">>}

Backends == {"postgres", "mongodb", "json", "fallback"}

\* Strings of the model in lexicographic order (ORDER BY / $sort compare text).
Lexicon ==
    <<"2023-24", "2024-25", "Biology", "Chemistry", "English", "Maths", "Physics",
      "Semester 1", "Semester 2">>

StrRank(s) == CHOOSE i \in 1..Len(Lexicon) : Lexicon[i] = s

Range(f) == {f[i] : i \in DOMAIN f}

\* The numbers of S in ascending order.
SortedIndices(S) ==
    CHOOSE s \in [1..Cardinality(S) -> S] :
        \A i, j \in 1..Cardinality(S) : i < j => s[i] < s[j]

RECURSIVE SeqSum(_)
SeqSum(s) == IF s = <<>> THEN 0 ELSE Head(s) + SeqSum(Tail(s))

\* All orderings of the sequence s.
Perms(s) ==
    LET n == Len(s)
        bij == {f \in [1..n -> 1..n] : \A i, j \in 1..n : i # j => f[i] # f[j]}
    IN  {[i \in 1..n |-> s[f[i]]] : f \in bij}

(***************************************************************************)
(* Subject rows and tables (a DataFrame with the canonical six columns)    *)
(***************************************************************************)
Row(s, ca, ese, lab, tot, sg) ==
    [Subject |-> s, CA_Marks |-> ca, ESE_Marks |-> ese, Lab_Marks |-> lab,
     Total |-> tot, SGPA |-> sg]

Phys7 == Row("Physics", 10, 40, 0, 500, 7)

Math8 == Row("Maths", 20, 50, 0, 700, 8)

Math6 == Row("Maths", 30, 45, 0, 750, 6)

\* Tables the upload tab hands to save_results: parsed and not empty.
UploadedTables == {<<Phys7, Math8>>, <<Math6>>, <<Math6, Phys7>>}

DataFrame(rows) == [kind |-> "DataFrame", rows |-> rows]

Record(y, t, data) == [academic_year |-> y, semester |-> t, data |-> data]

\* What an operation returned: "true", "false", or "raise" (an exception left it).
\* prior: what the store held for the operation's target before it ran.
\* others: what fetch showed for the other users before a save or a clear.
\* before: what fetch showed for the user of a save before it.
NoFetch == [v \in {} |-> {}]

NoOp ==
    [op |-> "none", user |-> "", year |-> "", term |-> "", rows |-> <<>>,
     ret |-> "none", prior |-> "none", others |-> NoFetch, before |-> {}]

Op(o, u, y, t, rows, r, prior) ==
    [op |-> o, user |-> u, year |-> y, term |-> t, rows |-> rows, ret |-> r,
     prior |-> prior, others |-> NoFetch, before |-> {}]

Count(s, x) == Cardinality({i \in 1..Len(s) : s[i] = x})

\* The same rows, each as many times, in any order.
SameBag(a, b) ==
    /\ Len(a) = Len(b)
    /\ \A x \in Range(a) \cup Range(b) : Count(a, x) = Count(b, x)

(***************************************************************************)
(* JSON-file store: db.py DatabaseManager                                  *)
(***************************************************************************)
NoData == [u \in {} |-> <<>>]

\* record['data'].to_dict('records'): a list of row dictionaries.
SerializeRecord(rec) ==
    IF rec.data.kind = "DataFrame"
    THEN [rec EXCEPT !.data = [kind |-> "list", rows |-> rec.data.rows]]
    ELSE rec

\* The JSON text save_data writes for self.data.
SerializeData(data) ==
    [u \in DOMAIN data |-> [i \in 1..Len(data[u]) |-> SerializeRecord(data[u][i])]]

\* load_data turns a record's data into a DataFrame only when it is a dict.
LoadRecord(rec) ==
    IF rec.data.kind = "dict"
    THEN [rec EXCEPT !.data = DataFrame(rec.data.rows)]
    ELSE rec

\* load_data: {} when the file does not exist, else the parsed JSON.
LoadData(file) ==
    IF ~file.exists
    THEN NoData
    ELSE [u \in DOMAIN file.text |->
            [i \in 1..Len(file.text[u]) |-> LoadRecord(file.text[u][i])]]

\* Index of the first record of recs with the key (y, t), 0 when there is none.
ExistingRecord(recs, y, t) ==
    LET hits == {i \in 1..Len(recs) :
                    recs[i].academic_year = y /\ recs[i].semester = t}
    IN  IF hits = {} THEN 0 ELSE CHOOSE i \in hits : \A j \in hits : i <= j

JsAppendAlways(data, u, y, t, df) ==
    LET d1 == IF u \in DOMAIN data THEN data ELSE data @@ (u :> <<>>)
    IN  [d1 EXCEPT ![u] = Append(@, Record(y, t, DataFrame(df)))]

\* self.data after save_results(u, y, t, df), before save_data.
JsSaveResultsData(data, u, y, t, df) ==
    LET d1 == IF u \in DOMAIN data THEN data ELSE data @@ (u :> <<>>)
        existing_record == ExistingRecord(d1[u], y, t)
        new_record == Record(y, t, DataFrame(df))
    IN  IF existing_record # 0
        THEN [d1 EXCEPT ![u][existing_record] = new_record]
        ELSE [d1 EXCEPT ![u] = Append(@, new_record)]

JsGetUserData(data, u) == IF u \in DOMAIN data THEN data[u] ELSE <<>>

JsClearKeepsRows(data, u) == data

\* self.data after clear_user_data(u).
JsClearUserData(data, u) == IF u \in DOMAIN data THEN [data EXCEPT ![u] = <<>>] ELSE data

(***************************************************************************)
(* Relational and document stores: database.py                             *)
(***************************************************************************)
\* float(x) of a value that is already a number.
ToFloat(x) == x

\* A cell float() raises on, such as the text 'AB' or None.
NotConvertible == -1000

\* float() accepts every numeric cell of the row.
Converts(row) ==
    NotConvertible \notin {row.CA_Marks, row.ESE_Marks, row.Lab_Marks, row.Total, row.SGPA}

AllConvert(df) == \A i \in 1..Len(df) : Converts(df[i])

\* The student_results row (or document) written for one DataFrame row.
StoredRow(u, y, t, row) ==
    [username |-> u, academic_year |-> y, semester |-> t,
     subject |-> row.Subject, ca_marks |-> ToFloat(row.CA_Marks),
     ese_marks |-> ToFloat(row.ESE_Marks), lab_marks |-> ToFloat(row.Lab_Marks),
     total_marks |-> ToFloat(row.Total), sgpa |-> ToFloat(row.SGPA)]

\* The row dictionary get_user_data builds from a stored row.
FetchedRow(r) ==
    Row(r.subject, r.ca_marks, r.ese_marks, r.lab_marks, r.total_marks, r.sgpa)

SameKey(r, u, y, t) == r.username = u /\ r.academic_year = y /\ r.semester = t

InsertOnly(table, u, y, t, df) ==
    table \o [i \in 1..Len(df) |-> StoredRow(u, y, t, df[i])]

\* DELETE ... WHERE username, academic_year, semester; then one INSERT per row.
DeleteThenInsert(table, u, y, t, df) ==
    SelectSeq(table, LAMBDA r : ~SameKey(r, u, y, t))
        \o [i \in 1..Len(df) |-> StoredRow(u, y, t, df[i])]

DeleteAllUsers(table, u) == <<>>

\* DELETE FROM student_results WHERE username = u.
DeleteUser(table, u) == SelectSeq(table, LAMBDA r : r.username # u)

KeyLess(a, b) ==
    \/ StrRank(a[1]) < StrRank(b[1])
    \/ a[1] = b[1] /\ StrRank(a[2]) < StrRank(b[2])

\* The keys of K as the sequence ORDER BY academic_year, semester visits them.
SortedKeys(K) ==
    LET n == Cardinality(K)
    IN  CHOOSE s \in [1..n -> K] :
            \A i, j \in 1..n : i < j => KeyLess(s[i], s[j])

RECURSIVE SeqProduct(_)
SeqProduct(ss) ==
    IF ss = <<>>
    THEN {<<>>}
    ELSE {<<h>> \o t : h \in Head(ss), t \in SeqProduct(Tail(ss))}

InsertionOrder(rows) == {rows}

\* ORDER BY subject: every ordering with the subjects ascending (ties in any order).
BySubject(rows) ==
    {p \in Perms(rows) :
        \A i \in 1..(Len(p) - 1) : StrRank(p[i].Subject) <= StrRank(p[i + 1].Subject)}

\* The results get_user_data can build from the rows of u in table: the rows
\* sorted by (academic_year, semester, subject) and grouped by key in that order.
GroupedOutcomes(table, u) ==
    LET mine == SelectSeq(table, LAMBDA r : r.username = u)
        ks   == SortedKeys({<<r.academic_year, r.semester>> : r \in Range(mine)})
        of(k) == LET sel == SelectSeq(mine, LAMBDA r : SameKey(r, u, k[1], k[2]))
                 IN  [i \in 1..Len(sel) |-> FetchedRow(sel[i])]
        choices == SeqProduct([i \in 1..Len(ks) |-> BySubject(of(ks[i]))])
    IN  {[i \in 1..Len(ks) |-> Record(ks[i][1], ks[i][2], DataFrame(c[i]))] : c \in choices}

PgGetUserData(u) == GroupedOutcomes(pgResults, u)

\* $group does not order its output: the records come in any order.
MgGetUserData(u) ==
    IF ~mgUsable THEN {<<>>}
    ELSE UNION {Perms(res) : res \in GroupedOutcomes(mgResults, u)}

(***************************************************************************)
(* UnifiedDatabaseManager: fetch                                           *)
(***************************************************************************)
\* Every list of semester records get_user_data(u) can return in this state.
GetUserData(u) ==
    CASE backend = "postgres" -> PgGetUserData(u)
      [] backend = "mongodb"  -> MgGetUserData(u)
      [] backend = "json"     -> {JsGetUserData(jsData, u)}
      [] OTHER                -> {<<>>}

(***************************************************************************)
(* Account stores: auth.py (users.json) and the backends' users tables     *)
(***************************************************************************)
\* The sign-up forms of the model: password, full name, email.
SignUps ==
    {[password |-> "pw1", full_name |-> "A. Student", email |-> "a@example.org"],
     [password |-> "pw2", full_name |-> "B. Student", email |-> "b@example.org"]}

\* hashlib.sha256(password).hexdigest(): the digest of the password.
hash_password(password) == <<"sha256", password>>

PasswordHashes == {hash_password(f.password) : f \in SignUps}

NoUsers == [u \in {} |-> <<>>]

AuthOverwrite(users, username, form) ==
    [ret |-> "true",
     users |-> [u \in DOMAIN users \cup {username} |->
                  IF u = username
                  THEN [password |-> hash_password(form.password),
                        full_name |-> form.full_name, email |-> form.email]
                  ELSE users[u]]]

\* auth.create_user on the loaded users: the value returned and the file written.
AuthCreateUser(users, username, form) ==
    IF username \in DOMAIN users
    THEN [ret |-> "false", users |-> users]
    ELSE [ret |-> "true",
          users |-> users @@ (username :>
                      [password |-> hash_password(form.password),
                       full_name |-> form.full_name, email |-> form.email])]

\* The account row or document the backends write.
AccountRow(username, password_hash, form) ==
    [username |-> username, password_hash |-> password_hash,
     full_name |-> form.full_name, email |-> form.email]

\* PostgreSQLManager.create_user: INSERT under UNIQUE (username).
PgCreateUser(users, username, password_hash, form) ==
    IF username \in DOMAIN users
    THEN [ret |-> "false", users |-> users]
    ELSE [ret |-> "true",
          users |-> users @@ (username :> AccountRow(username, password_hash, form))]

\* MongoDBManager.create_user: insert_one into a collection with no unique index.
MgCreateUser(usable, docs, username, password_hash, form) ==
    IF ~usable
    THEN [ret |-> "false", users |-> docs]
    ELSE [ret |-> "true",
          users |-> Append(docs, AccountRow(username, password_hash, form))]

\* SimpleFallbackManager.create_user: users[username] = {...}; _save_json.
FbCreateUser(users, username, password_hash, form) ==
    [ret |-> "true",
     users |-> [u \in DOMAIN users \cup {username} |->
                  IF u = username
                  THEN [password_hash |-> password_hash,
                        full_name |-> form.full_name, email |-> form.email]
                  ELSE users[u]]]

\* find_one({'username': u}): the first matching document, as <<doc>>; None is <<>>.
MgGetUser(usable, docs, u) ==
    LET hits == {i \in 1..Len(docs) : docs[i].username = u}
    IN  IF ~usable \/ hits = {}
        THEN <<>>
        ELSE <<docs[CHOOSE i \in hits : \A j \in hits : i <= j]>>

(***************************************************************************)
(* Result Store operations, per backend                                    *)
(***************************************************************************)
\* PostgreSQLManager.save_results: one transaction; an INSERT that breaks the
\* foreign key, or a float() that raises, leaves the transaction uncommitted
\* and False is returned.
PgSaveResults(table, users, fk, u, y, t, df) ==
    IF (fk /\ u \notin DOMAIN users) \/ ~AllConvert(df)
    THEN [ret |-> "false", table |-> table]
    ELSE [ret |-> "true", table |-> DeleteThenInsert(table, u, y, t, df)]

\* MongoDBManager.save_results: delete_many, then the documents are built and
\* insert_many stores them; a float() that raises comes after delete_many.
MgSaveResults(usable, table, u, y, t, df) ==
    IF ~usable
    THEN [ret |-> "false", table |-> table]
    ELSE IF ~AllConvert(df)
    THEN [ret |-> "false", table |-> SelectSeq(table, LAMBDA r : ~SameKey(r, u, y, t))]
    ELSE [ret |-> "true", table |-> DeleteThenInsert(table, u, y, t, df)]

\* MongoDBManager.clear_user_data.
MgClearUserData(usable, table, u) ==
    IF ~usable
    THEN [ret |-> "false", table |-> table]
    ELSE [ret |-> "true", table |-> DeleteUser(table, u)]

(***************************************************************************)
(* Actions of the store                                                    *)
(***************************************************************************)
HasKey(rec, y, t) == rec.academic_year = y /\ rec.semester = t

\* What fetch(u) shows for the key (y, t) compared with the table df.
PriorOfKey(u, y, t, df) ==
    LET held == {rec \in UNION {Range(res) : res \in GetUserData(u)} : HasKey(rec, y, t)}
    IN  IF held = {} THEN "none"
        ELSE IF \E rec \in held : ~SameBag(rec.data.rows, df) THEN "different"
        ELSE "same"

PriorOfUser(u) == IF GetUserData(u) = {<<>>} THEN "none" ELSE "some"

\* What fetch shows for every user but u.
OthersFetch(u) == [v \in Users \ {u} |-> GetUserData(v)]

SaveOp(u, y, t, df, r) ==
    [Op("save", u, y, t, df, r, PriorOfKey(u, y, t, df))
        EXCEPT !.others = OthersFetch(u), !.before = GetUserData(u)]

ClearOp(u, r) ==
    [Op("clear", u, "", "", <<>>, r, PriorOfUser(u)) EXCEPT !.others = OthersFetch(u)]

Quiet == UNCHANGED <<user_data, metric, csvIn, csvOut, sessionVars>>

\* What open(data_file, 'w') and json.dump can do in save_data: write the
\* file; raise before the file is touched; raise after it was truncated.
WriteOutcomes == {"written", "refused", "torn"}

\* student_data.json after save_data tried to write data.
WrittenFile(file, data, write) ==
    CASE write = "written" -> [exists |-> TRUE, text |-> SerializeData(data)]
      [] write = "refused" -> file
      [] write = "torn"    -> [exists |-> TRUE, text |-> NoData]

\* UnifiedDatabaseManager.save_results, with the outcome of the file write.
SaveResultsWith(u, y, t, df, write) ==
    /\ ops < MaxOps
    /\ ops' = ops + 1
    /\ \/ /\ backend = "postgres"
          /\ LET r == PgSaveResults(pgResults, pgUsers, pgForeignKey, u, y, t, df)
             IN  /\ pgResults' = r.table
                 /\ lastOp' = SaveOp(u, y, t, df, r.ret)
          /\ UNCHANGED <<mgResults, jsData, jsFile>>
       \/ /\ backend = "mongodb"
          /\ LET r == MgSaveResults(mgUsable, mgResults, u, y, t, df)
             IN  /\ mgResults' = r.table
                 /\ lastOp' = SaveOp(u, y, t, df, r.ret)
          /\ UNCHANGED <<pgResults, jsData, jsFile>>
       \/ /\ backend = "json"
          /\ jsData' = JsSaveResultsData(jsData, u, y, t, df)
          /\ jsFile' = WrittenFile(jsFile, JsSaveResultsData(jsData, u, y, t, df), write)
          /\ lastOp' = SaveOp(u, y, t, df, IF write = "written" THEN "true" ELSE "false")
          /\ UNCHANGED <<pgResults, mgResults>>
       \/ /\ backend = "fallback"
          /\ lastOp' = SaveOp(u, y, t, df, "true")
          /\ UNCHANGED <<pgResults, mgResults, jsData, jsFile>>
    /\ UNCHANGED <<backend, pgForeignKey, pgUsers, mgUsable, mgUsers, usersFile>>
    /\ Quiet

\* Upload tab, "Save to Database": the save of a parsed table, the file written.
SaveResults(u, y, t, df) == SaveResultsWith(u, y, t, df, "written")

\* History tab, "Clear All Data": UnifiedDatabaseManager.clear_user_data.
ClearUserData(u) ==
    /\ ops < MaxOps
    /\ ops' = ops + 1
    /\ \/ /\ backend = "postgres"
          /\ pgResults' = DeleteUser(pgResults, u)
          /\ lastOp' = ClearOp(u, "true")
          /\ UNCHANGED <<mgResults, jsData, jsFile>>
       \/ /\ backend = "mongodb"
          /\ LET r == MgClearUserData(mgUsable, mgResults, u)
             IN  /\ mgResults' = r.table
                 /\ lastOp' = ClearOp(u, r.ret)
          /\ UNCHANGED <<pgResults, jsData, jsFile>>
       \/ /\ backend = "json"
          /\ jsData' = JsClearUserData(jsData, u)
          /\ jsFile' = IF u \in DOMAIN jsData
                       THEN [exists |-> TRUE, text |-> SerializeData(jsData')]
                       ELSE jsFile
          /\ lastOp' = ClearOp(u, "true")
          /\ UNCHANGED <<pgResults, mgResults>>
       \/ /\ backend = "fallback"
          /\ lastOp' = ClearOp(u, "false")
          /\ UNCHANGED <<pgResults, mgResults, jsData, jsFile>>
    /\ UNCHANGED <<backend, pgForeignKey, pgUsers, mgUsable, mgUsers, usersFile>>
    /\ Quiet

\* A new session or process: UnifiedDatabaseManager() constructs the manager
\* again; DatabaseManager.__init__ reads student_data.json.
NewSession ==
    /\ ops < MaxOps
    /\ ops' = ops + 1
    /\ jsData' = LoadData(jsFile)
    /\ lastOp' = Op("restart", "", "", "", <<>>, "none", "none")
    /\ UNCHANGED <<backend, pgForeignKey, pgUsers, pgResults, mgUsable, mgUsers,
                   mgResults, jsFile, usersFile>>
    /\ Quiet

\* Sign-up form: auth.create_user.
SignUp(u, form) ==
    /\ ops < MaxOps
    /\ ops' = ops + 1
    /\ LET r == AuthCreateUser(usersFile, u, form)
       IN  /\ usersFile' = r.users
           /\ lastOp' = Op("auth_create_user", u, "", "", <<form>>, r.ret, "none")
    /\ UNCHANGED <<backend, pgForeignKey, pgUsers, pgResults, mgUsable, mgUsers,
                   mgResults, jsData, jsFile>>
    /\ Quiet

\* UnifiedDatabaseManager.create_user: delegated to the backend's create_user;
\* db.py's DatabaseManager has none, so the call raises AttributeError.
DbCreateUser(u, form) ==
    /\ ops < MaxOps
    /\ ops' = ops + 1
    /\ \/ /\ backend = "postgres"
          /\ LET r == PgCreateUser(pgUsers, u, hash_password(form.password), form)
             IN  /\ pgUsers' = r.users
                 /\ lastOp' = Op("db_create_user", u, "", "", <<form>>, r.ret, "none")
          /\ UNCHANGED <<mgUsers, usersFile>>
       \/ /\ backend = "mongodb"
          /\ LET r == MgCreateUser(mgUsable, mgUsers, u, hash_password(form.password), form)
             IN  /\ mgUsers' = r.users
                 /\ lastOp' = Op("db_create_user", u, "", "", <<form>>, r.ret, "none")
          /\ UNCHANGED <<pgUsers, usersFile>>
       \/ /\ backend = "json"
          /\ lastOp' = Op("db_create_user", u, "", "", <<form>>, "raise", "none")
          /\ UNCHANGED <<pgUsers, mgUsers, usersFile>>
       \/ /\ backend = "fallback"
          /\ LET r == FbCreateUser(usersFile, u, hash_password(form.password), form)
             IN  /\ usersFile' = r.users
                 /\ lastOp' = Op("db_create_user", u, "", "", <<form>>, r.ret, "none")
          /\ UNCHANGED <<pgUsers, mgUsers>>
    /\ UNCHANGED <<backend, pgForeignKey, pgResults, mgUsable, mgResults, jsData, jsFile>>
    /\ Quiet

\* The two browser sessions whose requests can interleave.
Callers == {1, 2}

\* A create_user call that has not started: no arguments, no locals.
NoCall == [pc |-> "idle", username |-> "", form |-> <<>>, users |-> NoUsers, ret |-> "none"]

\* st.session_state as app.py:18-21 initialises it; None is written "None".
\* succeeded: the names for which authenticate_user returned True in the session.
SignedOut == [authenticated |-> FALSE, username |-> "None", succeeded |-> {}]

SessionsIdle ==
    /\ jsOther = NoData
    /\ calls = [c \in Callers |-> NoCall]
    /\ session_state = SignedOut

StoreInit ==
    /\ SessionsIdle
    /\ backend \in Backends
    /\ pgForeignKey \in (IF backend = "postgres" THEN BOOLEAN ELSE {FALSE})
    /\ mgUsable \in (IF backend = "mongodb" THEN BOOLEAN ELSE {FALSE})
    /\ pgUsers = NoUsers
    /\ pgResults = <<>>
    /\ mgUsers = <<>>
    /\ mgResults = <<>>
    /\ jsData = NoData
    /\ jsFile = [exists |-> FALSE, text |-> NoData]
    /\ usersFile = NoUsers
    /\ lastOp = NoOp
    /\ ops = 0

Init ==
    /\ StoreInit
    /\ user_data = <<>>
    /\ metric = [op |-> "none"]
    /\ csvIn = [op |-> "none"]
    /\ csvOut = [op |-> "none"]

Next ==
    \/ \E u \in Users, k \in SavedKeys, df \in UploadedTables :
          SaveResults(u, k[1], k[2], df)
    \/ \E u \in Users : ClearUserData(u)
    \/ NewSession
    \/ \E u \in Users, form \in SignUps : SignUp(u, form)
    \/ \E u \in Users, form \in SignUps : DbCreateUser(u, form)

Spec == Init /\ [][Next]_vars

(***************************************************************************)
(* Properties of the Result Store and the account stores                   *)
(***************************************************************************)
RecordsFor(res, y, t) == {i \in 1..Len(res) : HasKey(res[i], y, t)}

\* The backends whose save_results stores rows (db.py and database.py managers).
StoringBackends == {"json", "postgres", "mongodb"}

C2_ReadYourWrites ==
    (lastOp.op = "save" /\ lastOp.ret = "true") =>
        \A res \in GetUserData(lastOp.user) :
            \E i \in RecordsFor(res, lastOp.year, lastOp.term) :
                SameBag(res[i].data.rows, lastOp.rows)

\* Whether the active backend's account store knows u (get_user(u) is not None).
DbHasAccount(u) ==
    CASE backend = "postgres" -> u \in DOMAIN pgUsers
      [] backend = "mongodb"  -> MgGetUser(mgUsable, mgUsers, u) # <<>>
      [] backend = "fallback" -> u \in DOMAIN usersFile
      [] OTHER                -> FALSE

\* The account the active backend returns for u, as <<account>>; None is <<>>.
DbGetUser(u) ==
    CASE backend = "postgres" -> IF u \in DOMAIN pgUsers THEN <<pgUsers[u]>> ELSE <<>>
      [] backend = "mongodb"  -> MgGetUser(mgUsable, mgUsers, u)
      [] backend = "fallback" -> IF u \in DOMAIN usersFile THEN <<usersFile[u]>> ELSE <<>>
      [] OTHER                -> <<>>

\* C3: creating an account whose username already has one returns false and
\* leaves the stored account unchanged, in auth.create_user and in every
\* backend's create_user.
C3_CreateExistingFails ==
    [][ \A u \in Users :
          /\ (lastOp'.op = "auth_create_user" /\ lastOp'.user = u
                 /\ u \in DOMAIN usersFile) =>
                (lastOp'.ret = "false" /\ usersFile' = usersFile)
          /\ (lastOp'.op = "db_create_user" /\ lastOp'.user = u /\ DbHasAccount(u)) =>
                (lastOp'.ret = "false" /\ DbGetUser(u)' = DbGetUser(u))
      ]_vars

\* The backends on which clear_user_data runs and reports success.
ClearSucceeds ==
    \/ backend \in {"json", "postgres"}
    \/ backend = "mongodb" /\ mgUsable

FrameOfClearAndSave ==
    /\ (lastOp.op = "clear") => GetUserData(lastOp.user) = {<<>>}
    /\ (lastOp.op \in {"clear", "save"}) =>
          \A v \in Users \ {lastOp.user} : GetUserData(v) = lastOp.others[v]

CanCombine(records) ==
    \A i \in 1..Len(records) : records[i].data.kind = "DataFrame"

\* C5: after a restart of the JSON store, get_user_data returns for every key a
\* table (a DataFrame, as before the restart) so the Metrics Engine can be built.
C5_RestartKeepsTables ==
    (backend = "json" /\ lastOp.op = "restart") =>
        \A u \in Users : \A res \in GetUserData(u) : CanCombine(res)

\* C6: fetch returns each semester's rows in the order they were saved, so the
\* first row's grade point is the first saved row's.
C6_RowOrderKept ==
    (lastOp.op = "save" /\ lastOp.ret = "true") =>
        \A res \in GetUserData(lastOp.user) :
            \A i \in RecordsFor(res, lastOp.year, lastOp.term) :
                /\ res[i].data.rows = lastOp.rows
                /\ res[i].data.rows[1].SGPA = lastOp.rows[1].SGPA

(***************************************************************************)
(* Metrics Engine: analytics.py PerformanceAnalytics                       *)
(***************************************************************************)
\* Tables of the Metrics Engine checks: grade points above, at and below 0, a
\* first row that differs from the second, a duplicated subject, and Totals
\* (in tenths of a mark) on both sides of the two category thresholds.
MetricTables ==
    {<<Row("Maths", 20, 50, 0, 750, 8), Row("Physics", 10, 40, 0, 499, 8)>>,
     <<Row("Physics", 25, 45, 0, 749, 6), Row("Maths", 10, 40, 0, 500, 9)>>,
     <<Row("Chemistry", 10, 40, 0, 500, 0)>>,
     <<Row("Maths", 9, 40, 0, 499, -1), Row("Maths", 30, 45, 0, 750, 7)>>,
     <<Row("Chemistry", 30, 44, 0, 749, 8)>>}

StoreKeys == AcademicYears \X Semesters

\* The lists of records fetch can return: at most MaxSemesters records, no two
\* with the same (academic_year, semester), each holding a DataFrame with rows.
MetricInputs ==
    UNION {
        {[i \in 1..n |-> Record(ks[i][1], ks[i][2], DataFrame(ts[i]))] :
            ks \in {f \in [1..n -> StoreKeys] : \A i, j \in 1..n : i # j => f[i] # f[j]},
            ts \in [1..n -> MetricTables]}
        : n \in 0..MaxSemesters}

\* re.search(r'(\d+)', semester_str): the first run of digits, 0 without one.
SemesterDigits ==
    [s \in Semesters |-> CASE s = "Semester 1" -> 1 [] s = "Semester 2" -> 2 [] OTHER -> 0]

_extract_semester_number(semester_str) ==
    IF semester_str \in DOMAIN SemesterDigits THEN SemesterDigits[semester_str] ELSE 0

\* The rows of one record with the record's year, semester and semester number.
AnnotatedRows(rec) ==
    [i \in 1..Len(rec.data.rows) |->
        [Subject |-> rec.data.rows[i].Subject, CA_Marks |-> rec.data.rows[i].CA_Marks,
         ESE_Marks |-> rec.data.rows[i].ESE_Marks, Lab_Marks |-> rec.data.rows[i].Lab_Marks,
         Total |-> rec.data.rows[i].Total, SGPA |-> rec.data.rows[i].SGPA,
         academic_year |-> rec.academic_year, semester |-> rec.semester,
         semester_num |-> _extract_semester_number(rec.semester)]]

RECURSIVE Concat(_)
Concat(ss) == IF ss = <<>> THEN <<>> ELSE Head(ss) \o Concat(Tail(ss))

\* _combine_all_data: pd.concat of the annotated tables, in the order of user_data.
CombineAllData(records) == Concat([i \in 1..Len(records) |-> AnnotatedRows(records[i])])

\* groupby(['academic_year', 'semester'])['SGPA'].first(): per key, in key order,
\* the grade point of the first row of the group.
SemesterSgpa(combined) ==
    LET ks == SortedKeys({<<r.academic_year, r.semester>> : r \in Range(combined)})
        first(k) ==
            LET idx == {i \in 1..Len(combined) :
                          combined[i].academic_year = k[1] /\ combined[i].semester = k[2]}
            IN  combined[CHOOSE i \in idx : \A j \in idx : i <= j].SGPA
    IN  [i \in 1..Len(ks) |-> [key |-> ks[i], sgpa |-> first(ks[i])]]

NonNegativeSgpa(semester_sgpa) == SelectSeq(semester_sgpa, LAMBDA e : e.sgpa >= 0)

\* semester_sgpa[semester_sgpa > 0]
ValidSgpa(semester_sgpa) == SelectSeq(semester_sgpa, LAMBDA e : e.sgpa > 0)

Zero == [num |-> 0, den |-> 1]

\* get_average_sgpa: the mean of the valid values as a fraction, 0.0 without any.
get_average_sgpa(combined) ==
    IF combined = <<>>
    THEN Zero
    ELSE LET valid_sgpa == ValidSgpa(SemesterSgpa(combined))
         IN  IF valid_sgpa = <<>>
             THEN Zero
             ELSE [num |-> SeqSum([i \in 1..Len(valid_sgpa) |-> valid_sgpa[i].sgpa]),
                   den |-> Len(valid_sgpa)]

NotAvailable == <<"N/A">>

\* f"{year} - {semester}"
FormatSemester(key) == <<key[1], " - ", key[2]>>

\* idxmax / idxmin: the first position holding the largest (smallest) value.
FirstIndex(series) == CHOOSE i \in 1..Len(series) : \A j \in 1..Len(series) : i <= j

IdxMax(series) ==
    CHOOSE i \in 1..Len(series) :
        /\ \A j \in 1..Len(series) : series[j].sgpa <= series[i].sgpa
        /\ \A j \in 1..(i - 1) : series[j].sgpa < series[i].sgpa

IdxMin(series) ==
    CHOOSE i \in 1..Len(series) :
        /\ \A j \in 1..Len(series) : series[j].sgpa >= series[i].sgpa
        /\ \A j \in 1..(i - 1) : series[j].sgpa > series[i].sgpa

get_best_semester(combined) ==
    IF combined = <<>>
    THEN NotAvailable
    ELSE LET valid_sgpa == ValidSgpa(SemesterSgpa(combined))
         IN  IF valid_sgpa = <<>>
             THEN NotAvailable
             ELSE FormatSemester(valid_sgpa[IdxMax(valid_sgpa)].key)

WorstOfAllSemesters(combined) ==
    IF combined = <<>>
    THEN NotAvailable
    ELSE LET all == SemesterSgpa(combined)
         IN  FormatSemester(all[IdxMin(all)].key)

get_worst_semester(combined) ==
    IF combined = <<>>
    THEN NotAvailable
    ELSE LET valid_sgpa == ValidSgpa(SemesterSgpa(combined))
         IN  IF valid_sgpa = <<>>
             THEN NotAvailable
             ELSE FormatSemester(valid_sgpa[IdxMin(valid_sgpa)].key)

high_threshold == 75

medium_threshold == 50

\* Totals are in tenths of a mark.
IsHighStrict(total) == total > 10 * high_threshold

IsHigh(total) == total >= 10 * high_threshold

IsMedium(total) == total >= 10 * medium_threshold /\ total < 10 * high_threshold

IsLow(total) == total < 10 * medium_threshold

CountRows(combined, Test(_)) == Cardinality({i \in 1..Len(combined) : Test(combined[i].Total)})

get_performance_categories(combined) ==
    IF combined = <<>>
    THEN [High |-> 0, Medium |-> 0, Low |-> 0]
    ELSE [High |-> CountRows(combined, IsHigh),
          Medium |-> CountRows(combined, IsMedium),
          Low |-> CountRows(combined, IsLow)]

(***************************************************************************)
(* Actions of the Metrics Engine: one call on PerformanceAnalytics(user_data)*)
(***************************************************************************)
StoreQuiet == UNCHANGED <<storeVars, sessionVars>>

GetAverageSgpa ==
    /\ metric' = [op |-> "get_average_sgpa",
                  value |-> get_average_sgpa(CombineAllData(user_data))]
    /\ UNCHANGED <<user_data, csvIn, csvOut>>
    /\ StoreQuiet

GetBestSemester ==
    /\ metric' = [op |-> "get_best_semester",
                  value |-> get_best_semester(CombineAllData(user_data))]
    /\ UNCHANGED <<user_data, csvIn, csvOut>>
    /\ StoreQuiet

GetWorstSemester ==
    /\ metric' = [op |-> "get_worst_semester",
                  value |-> get_worst_semester(CombineAllData(user_data))]
    /\ UNCHANGED <<user_data, csvIn, csvOut>>
    /\ StoreQuiet

GetPerformanceCategories ==
    /\ metric' = [op |-> "get_performance_categories",
                  value |-> get_performance_categories(CombineAllData(user_data))]
    /\ UNCHANGED <<user_data, csvIn, csvOut>>
    /\ StoreQuiet

StoreIdle ==
    /\ SessionsIdle
    /\ backend = "json"
    /\ pgForeignKey = FALSE
    /\ mgUsable = FALSE
    /\ pgUsers = NoUsers
    /\ pgResults = <<>>
    /\ mgUsers = <<>>
    /\ mgResults = <<>>
    /\ jsData = NoData
    /\ jsFile = [exists |-> FALSE, text |-> NoData]
    /\ usersFile = NoUsers
    /\ lastOp = NoOp
    /\ ops = 0

MetricsInit ==
    /\ StoreIdle
    /\ user_data \in MetricInputs
    /\ metric = [op |-> "none"]
    /\ csvIn = [op |-> "none"]
    /\ csvOut = [op |-> "none"]

MetricsNext ==
    \/ GetAverageSgpa
    \/ GetBestSemester
    \/ GetWorstSemester
    \/ GetPerformanceCategories

SpecMetrics == MetricsInit /\ [][MetricsNext]_vars

(***************************************************************************)
(* Properties of the Metrics Engine                                        *)
(***************************************************************************)
\* A semester's grade-point value: the value of the first row of its record.
SemesterValue(rec) == rec.data.rows[1].SGPA

\* The records of user_data whose grade-point value counts (is above 0).
Counted == {i \in 1..Len(user_data) : SemesterValue(user_data[i]) > 0}

CountedSum ==
    SeqSum([i \in 1..Len(user_data) |->
              IF i \in Counted THEN SemesterValue(user_data[i]) ELSE 0])

\* C7: get_average_sgpa() is 0.0 exactly when the table is empty or every
\* semester's grade-point value is <= 0; otherwise it is the mean of exactly the
\* semester values that are > 0.
C7_AverageSgpa ==
    (metric.op = "get_average_sgpa") =>
        /\ (metric.value.num = 0) <=> (Counted = {})
        /\ metric.value.den > 0
        /\ (Counted # {}) =>
              metric.value.num * Cardinality(Counted) = CountedSum * metric.value.den

\* C7 witness: the average was taken over semesters of which one counts and
\* another has a value <= 0.
C7_Witness ==
    /\ metric.op = "get_average_sgpa"
    /\ Counted # {}
    /\ \E i \in 1..Len(user_data) : i \notin Counted
    /\ metric.value.num > 0

NamesCounted(value, IsExtreme(_, _)) ==
    \E i \in Counted :
        /\ value = FormatSemester(<<user_data[i].academic_year, user_data[i].semester>>)
        /\ \A j \in Counted :
              IsExtreme(SemesterValue(user_data[i]), SemesterValue(user_data[j]))

AtLeast(a, b) == a >= b

AtMost(a, b) == a <= b

\* C8: get_best_semester / get_worst_semester return "N/A" exactly when no
\* semester has a value > 0, and otherwise "{year} - {term}" of a semester whose
\* value is > 0 and is the maximum / minimum over the semesters with value > 0.
C8_BestWorstSemester ==
    /\ (metric.op = "get_best_semester") =>
          IF Counted = {} THEN metric.value = NotAvailable
          ELSE NamesCounted(metric.value, AtLeast)
    /\ (metric.op = "get_worst_semester") =>
          IF Counted = {} THEN metric.value = NotAvailable
          ELSE NamesCounted(metric.value, AtMost)

\* C8 witness: the worst semester was asked for while a semester with a value
\* <= 0 sits beside one with a value > 0.
C8_Witness ==
    /\ metric.op = "get_worst_semester"
    /\ metric.value # NotAvailable
    /\ \E i \in 1..Len(user_data) : SemesterValue(user_data[i]) <= 0

AllTotals ==
    Concat([i \in 1..Len(user_data) |->
              [k \in 1..Len(user_data[i].data.rows) |-> user_data[i].data.rows[k].Total]])

TotalsEqual(v) == Cardinality({k \in 1..Len(AllTotals) : AllTotals[k] = v})

\* C9: get_performance_categories partitions the rows: High + Medium + Low is the
\* number of rows (duplicate subjects counted per row); a Total of 75 is High, of
\* 50 and of 74.9 Medium, of 49.9 Low.
C9_CategoriesPartition ==
    (metric.op = "get_performance_categories") =>
        /\ metric.value.High + metric.value.Medium + metric.value.Low = Len(AllTotals)
        /\ metric.value.High >= TotalsEqual(750)
        /\ metric.value.Medium >= TotalsEqual(500) + TotalsEqual(749)
        /\ metric.value.Low >= TotalsEqual(499)

\* C9 witness: the categories were counted over rows with Totals 75, 74.9, 50 and
\* 49.9 and a subject that occurs twice.
C9_Witness ==
    /\ metric.op = "get_performance_categories"
    /\ \A v \in {499, 500, 749, 750} : TotalsEqual(v) > 0
    /\ \E i \in 1..Len(user_data) :
          /\ Len(user_data[i].data.rows) = 2
          /\ user_data[i].data.rows[1].Subject = user_data[i].data.rows[2].Subject

(***************************************************************************)
(* Tabular Ingestion Adapter: utils.py parse_csv_file                      *)
(***************************************************************************)
required_columns == {"Subject"}

optional_columns == <<"CA_Marks", "ESE_Marks", "Lab_Marks", "Total", "SGPA">>

numeric_columns == {"CA_Marks", "ESE_Marks", "Lab_Marks", "Total", "SGPA"}

\* str.strip() on the column names of the model.
Strip(name) ==
    CASE name = " Subject " -> "Subject"
      [] name = " Total"    -> "Total"
      [] name = "  "        -> ""
      [] OTHER              -> name

\* Headers of uploaded files, as pd.read_csv names the columns.
CsvHeaders ==
    {<<"Subject", "CA_Marks", "ESE_Marks", "Lab_Marks", "Total", "SGPA">>,
     <<"Subject", "Total">>,
     <<"Subject", " Total", "SGPA">>,
     <<"Subject", "Total", " Total">>,
     <<" Subject ", "CA_Marks", "SGPA">>,
     <<"CA_Marks", "Total">>}

\* Cells of a numeric column: a number, text that is no number, an empty cell.
NumericCells == {"45", "abc", ""}

\* Cells of the Subject column: a name, blanks only, an empty cell.
SubjectCells == {"Maths", "  ", ""}

\* A line of the file: its Subject cell and its cell for each numeric column. Every
\* numeric column holds the same cell, or one column holds "abc" beside numbers.
CsvLines ==
    {[subject |-> sc, num |-> [c \in numeric_columns |-> nc]] :
        sc \in SubjectCells, nc \in NumericCells}
    \cup
    {[subject |-> sc, num |-> [c \in numeric_columns |-> IF c = bad THEN "abc" ELSE "45"]] :
        sc \in SubjectCells, bad \in numeric_columns}

CsvInputs ==
    UNION {[columns : CsvHeaders, lines : [1..n -> CsvLines]] : n \in 1..MaxCsvRows}

\* The numbers the numeric cells of the model denote.
Parses(cell) == cell \in {"45"}

NumberOf(cell) == CASE cell = "45" -> 45 [] OTHER -> 0

\* pd.to_numeric(errors='coerce') on one cell: the number, or NaN.
ToNumeric(cell) ==
    IF Parses(cell) THEN [nan |-> FALSE, val |-> NumberOf(cell)]
    ELSE [nan |-> TRUE, val |-> 0]

\* .fillna(0)
FillNa(x) == IF x.nan THEN 0 ELSE x.val

\* How often the stripped name occurs among the columns.
Occurrences(columns, name) ==
    Cardinality({i \in 1..Len(columns) : Strip(columns[i]) = name})

\* The value of column col in the output row of a line: the column's cell
\* coerced, or the default 0 of a column the file does not have.
NumericValue(columns, line, col) ==
    IF Occurrences(columns, col) = 0 THEN 0 ELSE FillNa(ToNumeric(line.num[col]))

\* dropna(subset=['Subject']): the lines whose Subject cell is not missing.
NamedLines(lines) == {i \in 1..Len(lines) : lines[i].subject # ""}

KeptLinesNoStrip(lines) == NamedLines(lines)

\* df[df['Subject'].str.strip() != '']: of those, the lines with a subject
\* that is not blank.
KeptLines(lines) == {i \in NamedLines(lines) : Strip(lines[i].subject) # ""}

\* The upload tab on what the adapter returned: a table that is not None and
\* not empty is shown and can be saved, anything else is "Could not parse".
UploadOutcome(result) ==
    IF result.ret = "DataFrame" /\ result.rows # <<>> THEN "parsed" ELSE "could not parse"

\* parse_csv_file on the table read from the file: None, or the DataFrame: its
\* columns and its rows (each with the index of its line).
parse_csv_file(df) ==
    LET columns  == df.columns
        lines    == df.lines
        stripped == [i \in 1..Len(columns) |-> Strip(columns[i])]
        added    == SelectSeq(optional_columns, LAMBDA c : Occurrences(columns, c) = 0)
        \* df[col] of a name that two columns bear is a DataFrame: to_numeric raises
        coercion_raises == \E c \in numeric_columns : Occurrences(columns, c) > 1
        named    == NamedLines(lines)
        \* .str on a column that holds no text (every cell empty) raises
        str_raises == named = {}
        kept     == KeptLines(lines)
        order    == SortedIndices(kept)
    IN  IF ~(\A col \in required_columns : \E i \in 1..Len(columns) : columns[i] = col)
        THEN [ret |-> "None", columns |-> <<>>, rows |-> <<>>]
        ELSE IF coercion_raises \/ str_raises
        THEN [ret |-> "None", columns |-> <<>>, rows |-> <<>>]
        ELSE [ret |-> "DataFrame",
              columns |-> stripped \o added,
              rows |-> [k \in 1..Len(order) |->
                          [index |-> order[k],
                           Subject |-> lines[order[k]].subject,
                           CA_Marks |-> NumericValue(columns, lines[order[k]], "CA_Marks"),
                           ESE_Marks |-> NumericValue(columns, lines[order[k]], "ESE_Marks"),
                           Lab_Marks |-> NumericValue(columns, lines[order[k]], "Lab_Marks"),
                           Total |-> NumericValue(columns, lines[order[k]], "Total"),
                           SGPA |-> NumericValue(columns, lines[order[k]], "SGPA")]]]

\* Upload tab: parse_csv_file(uploaded_file).
ParseCsvFile ==
    /\ csvOut.op = "none"
    /\ csvOut' = [op |-> "parse_csv_file", result |-> parse_csv_file(csvIn),
                   shown |-> UploadOutcome(parse_csv_file(csvIn))]
    /\ UNCHANGED <<csvIn, user_data, metric>>
    /\ StoreQuiet

IngestInit ==
    /\ StoreIdle
    /\ user_data = <<>>
    /\ metric = [op |-> "none"]
    /\ csvIn \in CsvInputs
    /\ csvOut = [op |-> "none"]

IngestNext == ParseCsvFile

SpecIngest == IngestInit /\ [][IngestNext]_vars

(***************************************************************************)
(* Properties of the Tabular Ingestion Adapter                             *)
(***************************************************************************)
\* C10: numeric coercion is total. For an input with a Subject column the
\* adapter does not raise, and every line with a subject is in the output with
\* each cell of CA_Marks, ESE_Marks, Lab_Marks, Total and SGPA that is no number
\* ("abc", empty) as 0 and each cell that is a number as that number.
C10_CoercionTotal ==
    (/\ csvOut.op = "parse_csv_file"
     /\ \E i \in 1..Len(csvIn.columns) : csvIn.columns[i] = "Subject") =>
        /\ csvOut.result.ret \in {"None", "DataFrame"}
        /\ \A i \in 1..Len(csvIn.lines) :
              Strip(csvIn.lines[i].subject) # "" =>
                  /\ csvOut.result.ret = "DataFrame"
                  /\ \E k \in 1..Len(csvOut.result.rows) :
                        LET row == csvOut.result.rows[k]
                            out == [CA_Marks |-> row.CA_Marks, ESE_Marks |-> row.ESE_Marks,
                                    Lab_Marks |-> row.Lab_Marks, Total |-> row.Total,
                                    SGPA |-> row.SGPA]
                        IN  /\ row.index = i
                            /\ \A c \in numeric_columns :
                                  (Occurrences(csvIn.columns, c) > 0) =>
                                      out[c] = (IF Parses(csvIn.lines[i].num[c])
                                                THEN NumberOf(csvIn.lines[i].num[c])
                                                ELSE 0)

\* Every Subject cell of the file is missing or blank.
EmptySubjectColumn(df) ==
    /\ \E i \in 1..Len(df.columns) : df.columns[i] = "Subject"
    /\ \A i \in 1..Len(df.lines) : Strip(df.lines[i].subject) = ""

NoBlankSubjectReturned ==
    \A k \in 1..Len(csvOut.result.rows) : Strip(csvOut.result.rows[k].Subject) # ""

\* C11 as stated: a table whose Subject column is empty makes parse_csv_file
\* return the failure signal (None), and no returned table has a row with a
\* missing or blank subject.
C11_EmptySubjectFails ==
    (csvOut.op = "parse_csv_file") =>
        /\ EmptySubjectColumn(csvIn) => csvOut.result.ret = "None"
        /\ NoBlankSubjectReturned

\* C11 amended: for a table whose Subject column is empty, parse_csv_file returns
\* None when every Subject cell is missing (or a numeric column name occurs
\* twice) and otherwise a table without rows; the upload tab answers "could not
\* parse" in both cases; no returned table has a row with a missing or blank
\* subject.
C11_EmptySubjectNoRows ==
    (csvOut.op = "parse_csv_file") =>
        /\ EmptySubjectColumn(csvIn) =>
              /\ csvOut.shown = "could not parse"
              /\ csvOut.result.rows = <<>>
              /\ csvOut.result.ret = "None" <=>
                    \/ \A i \in 1..Len(csvIn.lines) : csvIn.lines[i].subject = ""
                    \/ \E c \in numeric_columns : Occurrences(csvIn.columns, c) > 1
        /\ NoBlankSubjectReturned

\* C11 witness: a file whose Subject cells are all blank, one of them blank text,
\* was parsed: a table without rows came back and the upload tab refused it.
C11_Witness ==
    /\ csvOut.op = "parse_csv_file"
    /\ EmptySubjectColumn(csvIn)
    /\ \E i \in 1..Len(csvIn.lines) : csvIn.lines[i].subject = "  "
    /\ csvOut.result.ret = "DataFrame"
    /\ csvOut.result.rows = <<>>
    /\ csvOut.shown = "could not parse"

(***************************************************************************)
(* Predictive analytics: ml_models.py MLAnalytics                          *)
(***************************************************************************)
\* _prepare_ml_data: the combined table; any exception while combining (a record
\* whose data is no DataFrame) gives the empty table.
PrepareMlData(records) ==
    IF CanCombine(records) THEN CombineAllData(records) ELSE <<>>

Failed(message) == [ok |-> FALSE, error |-> message]

\* groupby(['academic_year', 'semester', 'semester_num'])['SGPA'].first(): one
\* point (semester_num, SGPA of the first row) per semester.
SemesterPoints(combined) ==
    LET sg == SemesterSgpa(combined)
    IN  [i \in 1..Len(sg) |->
            [x |-> _extract_semester_number(sg[i].key[2]), y |-> sg[i].sgpa]]

\* LinearRegression().fit: the least-squares line y = (a + b * x) / den through
\* the points; when every x is the same the slope is 0 and the line is the mean.
LinearFit(points) ==
    LET n   == Len(points)
        Sx  == SeqSum([i \in 1..n |-> points[i].x])
        Sy  == SeqSum([i \in 1..n |-> points[i].y])
        Sxx == n * SeqSum([i \in 1..n |-> points[i].x * points[i].x]) - Sx * Sx
        Sxy == n * SeqSum([i \in 1..n |-> points[i].x * points[i].y]) - Sx * Sy
    IN  IF Sxx = 0
        THEN [a |-> Sy, b |-> 0, den |-> n]
        ELSE [a |-> Sy * Sxx - Sxy * Sx, b |-> n * Sxy, den |-> n * Sxx]

\* model.predict([[x]])[0] as a fraction.
PredictAt(line, x) == [num |-> line.a + line.b * x, den |-> line.den]

LastSemester(points) ==
    (CHOOSE i \in 1..Len(points) : \A j \in 1..Len(points) : points[j].x <= points[i].x)

LastSemesterNumber(points) == points[LastSemester(points)].x

\* semester_sgpa['semester_num'].max() + 1
NextSemester(points) == points[LastSemester(points)].x + 1

NoClamp(value) == value

\* max(0, min(10, predicted_sgpa)); the denominator is positive.
Clamp(value) ==
    IF value.num > 10 * value.den THEN [num |-> 10, den |-> 1]
    ELSE IF value.num < 0 THEN [num |-> 0, den |-> 1]
    ELSE value

predict_sgpa(combined) ==
    IF combined = <<>>
    THEN Failed("No SGPA data available for prediction")
    ELSE LET points == SemesterPoints(combined)
         IN  IF Len(points) < 2
             THEN Failed("Need at least 2 semesters for prediction")
             ELSE LET model == LinearFit(points)
                      next_semester == NextSemester(points)
                  IN  [ok |-> TRUE, model |-> model, next_semester |-> next_semester,
                       line_value |-> PredictAt(model, next_semester),
                       predicted_sgpa |-> Clamp(PredictAt(model, next_semester))]

feature_cols == {"CA_Marks", "ESE_Marks", "Lab_Marks", "Total"}

\* [col for col in feature_cols if col in self.combined_data.columns]
AvailableCols(combined) == feature_cols \cap DOMAIN combined[1]

\* groupby('Subject'): one line of subject_data per distinct subject.
SubjectsOf(combined) == {combined[i].Subject : i \in 1..Len(combined)}

AnySubject(subject_data) == Cardinality(subject_data) >= 1

\* not (len(subject_data) < 3)
EnoughSubjects(subject_data) == Cardinality(subject_data) >= 3

Min(a, b) == IF a <= b THEN a ELSE b

\* perform_clustering with the labels KMeans assigned: the error raised, or the
\* number of clusters, the label of every subject and one line of cluster_info
\* per cluster.
perform_clustering(combined, clusters) ==
    IF combined = <<>>
    THEN Failed("No data available for clustering")
    ELSE IF Cardinality(AvailableCols(combined)) < 2
    THEN Failed("Insufficient features for clustering")
    ELSE IF ~EnoughSubjects(SubjectsOf(combined))
    THEN Failed("Need at least 3 subjects for clustering")
    ELSE LET n_clusters == Min(3, Cardinality(SubjectsOf(combined)))
         IN  [ok |-> TRUE, n_clusters |-> n_clusters,
              clusters |-> [sub \in SubjectsOf(combined) |-> clusters[sub] % n_clusters],
              cluster_info |-> [cluster_id \in 0..(n_clusters - 1) |->
                                  {sub \in SubjectsOf(combined) :
                                      clusters[sub] % n_clusters = cluster_id}]]

\* ML Analysis tab, "Subject Clustering": KMeans may give any labelling.
PerformClustering ==
    /\ \E clusters \in [SubjectsOf(PrepareMlData(user_data)) -> 0..2] :
          metric' = [op |-> "perform_clustering",
                     value |-> perform_clustering(PrepareMlData(user_data), clusters)]
    /\ UNCHANGED <<user_data, csvIn, csvOut>>
    /\ StoreQuiet

\* ML Analysis tab, "Predict Next Semester SGPA".
PredictSgpa ==
    /\ metric' = [op |-> "predict_sgpa", value |-> predict_sgpa(PrepareMlData(user_data))]
    /\ UNCHANGED <<user_data, csvIn, csvOut>>
    /\ StoreQuiet

(***************************************************************************)
(* Metrics Engine: the remaining operations of PerformanceAnalytics         *)
(***************************************************************************)
\* Records whose table has no rows, as a store could hold them.
EmptyTableInputs ==
    UNION {
        {[i \in 1..n |-> Record(ks[i][1], ks[i][2], DataFrame(<<>>))] :
            ks \in {f \in [1..n -> StoreKeys] : \A i, j \in 1..n : i # j => f[i] # f[j]}}
        : n \in 1..MaxSemesters}

AnalyticsInputs == MetricInputs \cup EmptyTableInputs

\* len(self.combined_data['Subject'].unique())
get_total_subjects(combined) ==
    IF combined = <<>> THEN 0 ELSE Cardinality(SubjectsOf(combined))

calculate_cgpa(combined) == get_average_sgpa(combined)

\* The column col of a table as a sequence of numbers.
Column(table, col) ==
    [i \in 1..Len(table) |->
        CASE col = "CA_Marks"  -> table[i].CA_Marks
          [] col = "ESE_Marks" -> table[i].ESE_Marks
          [] col = "Lab_Marks" -> table[i].Lab_Marks
          [] col = "Total"     -> table[i].Total
          [] OTHER             -> table[i].SGPA]

\* round() of the fraction num / den (num >= 0, den > 0) to an integer, halves
\* to the even neighbour.
RoundHalfEven(num, den) ==
    LET q == num \div den
        r == num % den
    IN  IF 2 * r < den THEN q
        ELSE IF 2 * r > den THEN q + 1
        ELSE IF q % 2 = 0 THEN q ELSE q + 1

\* .mean().round(2) of a column, in hundredths (a Total is held in tenths, the
\* other columns in units).
MeanRound2(values, col) ==
    RoundHalfEven(SeqSum(values) * (IF col = "Total" THEN 10 ELSE 100), Len(values))

\* The subjects in the order groupby('Subject') lists them.
SortedSubjects(subjects) ==
    CHOOSE sq \in [1..Cardinality(subjects) -> subjects] :
        \A i, j \in 1..Cardinality(subjects) : i < j => StrRank(sq[i]) < StrRank(sq[j])

\* get_subject_wise_average: per subject the rounded means, in hundredths.
get_subject_wise_average(combined) ==
    IF combined = <<>>
    THEN <<>>
    ELSE LET subs == SortedSubjects(SubjectsOf(combined))
             of(sub) == SelectSeq(combined, LAMBDA r : r.Subject = sub)
         IN  [i \in 1..Len(subs) |->
                 [Subject   |-> subs[i],
                  CA_Marks  |-> MeanRound2(Column(of(subs[i]), "CA_Marks"), "CA_Marks"),
                  ESE_Marks |-> MeanRound2(Column(of(subs[i]), "ESE_Marks"), "ESE_Marks"),
                  Lab_Marks |-> MeanRound2(Column(of(subs[i]), "Lab_Marks"), "Lab_Marks"),
                  Total     |-> MeanRound2(Column(of(subs[i]), "Total"), "Total")]]

\* A mean as the fraction sum / count; the mean of no value is NaN.
Mean(values) ==
    [nan |-> values = <<>>, num |-> SeqSum(values),
     den |-> IF values = <<>> THEN 1 ELSE Len(values)]

\* The summary line of one record; the SGPA is that of the record's first row.
SemesterSummary(rec) ==
    [Academic_Year  |-> rec.academic_year,
     Semester       |-> rec.semester,
     Total_Subjects |-> Len(rec.data.rows),
     Average_CA     |-> Mean(Column(rec.data.rows, "CA_Marks")),
     Average_ESE    |-> Mean(Column(rec.data.rows, "ESE_Marks")),
     Average_Total  |-> Mean(Column(rec.data.rows, "Total")),
     SGPA           |-> IF rec.data.rows = <<>> THEN 0 ELSE rec.data.rows[1].SGPA]

SummariseEveryRecord(records, combined) ==
    [i \in 1..Len(records) |-> SemesterSummary(records[i])]

\* get_semester_wise_performance: one summary per record of user_data, in the
\* order of user_data; an empty table when the combined table is empty.
get_semester_wise_performance(records, combined) ==
    IF combined = <<>>
    THEN <<>>
    ELSE [i \in 1..Len(records) |-> SemesterSummary(records[i])]

SeqMax(values) == CHOOSE v \in Range(values) : \A w \in Range(values) : w <= v

SeqMin(values) == CHOOSE v \in Range(values) : \A w \in Range(values) : v <= w

\* get_statistical_summary: describe() of the four marks columns; of its lines
\* the count, the mean, the min and the max are carried here.
get_statistical_summary(combined) ==
    IF combined = <<>>
    THEN <<>>
    ELSE LET cols == <<"CA_Marks", "ESE_Marks", "Lab_Marks", "Total">>
         IN  [i \in 1..Len(cols) |->
                 [column |-> cols[i],
                  count  |-> Len(combined),
                  mean   |-> MeanRound2(Column(combined, cols[i]), cols[i]),
                  min    |-> SeqMin(Column(combined, cols[i])),
                  max    |-> SeqMax(Column(combined, cols[i]))]]

\* 0.0 as a correlation: cov / sqrt(varx * vary).
NoCorrelation == [cov |-> 0, varx |-> 1, vary |-> 1]

\* get_ca_ese_correlation: Pearson's coefficient cov / sqrt(varx * vary), given
\* by its three terms; 0.0 when it is NaN (a column without variance).
get_ca_ese_correlation(combined) ==
    IF combined = <<>>
    THEN NoCorrelation
    ELSE LET n  == Len(combined)
             x  == Column(combined, "CA_Marks")
             y  == Column(combined, "ESE_Marks")
             Sx == SeqSum(x)
             Sy == SeqSum(y)
             varx == n * SeqSum([i \in 1..n |-> x[i] * x[i]]) - Sx * Sx
             vary == n * SeqSum([i \in 1..n |-> y[i] * y[i]]) - Sy * Sy
             cov  == n * SeqSum([i \in 1..n |-> x[i] * y[i]]) - Sx * Sy
         IN  IF varx = 0 \/ vary = 0
             THEN NoCorrelation
             ELSE [cov |-> cov, varx |-> varx, vary |-> vary]

\* sort_values('Semester_Num'): the orders in which the lines of semester_perf
\* can come out, ascending by semester number, lines with the same number in
\* any order.
SortOrders(semester_perf) ==
    LET n == Len(semester_perf)
        num(i) == _extract_semester_number(semester_perf[i].Semester)
    IN  {o \in [1..n -> 1..n] :
            /\ \A i, j \in 1..n : i # j => o[i] # o[j]
            /\ \A i \in 1..(n - 1) : num(o[i]) <= num(o[i + 1])}

NoTrend == [empty |-> TRUE]

ImprovingOnTie(last, other) == IF last >= other THEN "improving" ELSE "declining"

\* "improving" if last > other else "declining"
Direction(last, other) == IF last > other THEN "improving" ELSE "declining"

\* get_trend_analysis with the order the sort gave.
get_trend_analysis(records, combined, order) ==
    IF combined = <<>>
    THEN NoTrend
    ELSE LET semester_perf == get_semester_wise_performance(records, combined)
             n == Len(semester_perf)
             sgpa_trend == [k \in 1..n |-> semester_perf[order[k]].SGPA]
         IN  IF semester_perf = <<>>
             THEN NoTrend
             ELSE [empty |-> FALSE,
                   sgpa_values   |-> sgpa_trend,
                   recent_trend  |-> IF n >= 2 THEN Direction(sgpa_trend[n], sgpa_trend[n - 1])
                                     ELSE "stable",
                   overall_trend |-> IF n >= 2 THEN Direction(sgpa_trend[n], sgpa_trend[1])
                                     ELSE "stable",
                   best_sgpa     |-> SeqMax(sgpa_trend),
                   worst_sgpa    |-> SeqMin(sgpa_trend),
                   average_sgpa  |-> [num |-> SeqSum(sgpa_trend), den |-> n]]

\* A call of a Metrics Engine operation on PerformanceAnalytics(user_data).
Compute(op, value) ==
    /\ metric' = [op |-> op, value |-> value]
    /\ UNCHANGED <<user_data, csvIn, csvOut>>
    /\ StoreQuiet

GetTotalSubjects ==
    Compute("get_total_subjects", get_total_subjects(CombineAllData(user_data)))

CalculateCgpa == Compute("calculate_cgpa", calculate_cgpa(CombineAllData(user_data)))

GetSubjectWiseAverage ==
    Compute("get_subject_wise_average", get_subject_wise_average(CombineAllData(user_data)))

GetSemesterWisePerformance ==
    Compute("get_semester_wise_performance",
            get_semester_wise_performance(user_data, CombineAllData(user_data)))

GetStatisticalSummary ==
    Compute("get_statistical_summary", get_statistical_summary(CombineAllData(user_data)))

GetCaEseCorrelation ==
    Compute("get_ca_ese_correlation", get_ca_ese_correlation(CombineAllData(user_data)))

GetTrendAnalysis ==
    \E order \in SortOrders(get_semester_wise_performance(user_data, CombineAllData(user_data))) :
        Compute("get_trend_analysis",
                get_trend_analysis(user_data, CombineAllData(user_data), order))

\* sgpa_values[sgpa_values > 0].iloc[0] if any(sgpa_values > 0) else 0
FirstPositive(rows) ==
    IF \E i \in 1..Len(rows) : rows[i].SGPA > 0
    THEN rows[CHOOSE i \in 1..Len(rows) :
                 rows[i].SGPA > 0 /\ \A j \in 1..(i - 1) : rows[j].SGPA <= 0].SGPA
    ELSE 0

\* The mean of the values above 0 as a fraction, 0.0 without any.
MeanOfPositive(values) ==
    IF SelectSeq(values, LAMBDA v : v > 0) = <<>>
    THEN Zero
    ELSE [num |-> SeqSum(SelectSeq(values, LAMBDA v : v > 0)),
          den |-> Len(SelectSeq(values, LAMBDA v : v > 0))]

\* utils.calculate_cgpa(user_data): per record the first SGPA above 0 of its
\* rows; a record whose data is no DataFrame raises, which gives 0.0.
utils_calculate_cgpa(records) ==
    IF \E i \in 1..Len(records) : records[i].data.kind # "DataFrame"
    THEN Zero
    ELSE MeanOfPositive([i \in 1..Len(records) |-> FirstPositive(records[i].data.rows)])

UtilsCalculateCgpa == Compute("utils_calculate_cgpa", utils_calculate_cgpa(user_data))

AnalyticsInit ==
    /\ StoreIdle
    /\ user_data \in AnalyticsInputs
    /\ metric = [op |-> "none"]
    /\ csvIn = [op |-> "none"]
    /\ csvOut = [op |-> "none"]

AnalyticsNext ==
    \/ MetricsNext
    \/ PredictSgpa
    \/ PerformClustering
    \/ GetTotalSubjects
    \/ CalculateCgpa
    \/ GetSubjectWiseAverage
    \/ GetSemesterWisePerformance
    \/ GetStatisticalSummary
    \/ GetCaEseCorrelation
    \/ GetTrendAnalysis
    \/ UtilsCalculateCgpa

SpecAnalytics == AnalyticsInit /\ [][AnalyticsNext]_vars

(***************************************************************************)
(* Properties of the predictive analytics                                  *)
(***************************************************************************)
\* C12: whenever predict_sgpa succeeds the forecast lies in [0, 10], also when
\* the fitted line is below 0 or above 10 at the next semester number.
C12_ForecastClamped ==
    (metric.op = "predict_sgpa" /\ metric.value.ok) =>
        LET f == metric.value.predicted_sgpa
            l == metric.value.line_value
        IN  /\ f.den > 0
            /\ 0 <= f.num /\ f.num <= 10 * f.den
            /\ (l.num < 0) => f.num = 0
            /\ (l.num > 10 * l.den) => f.num = 10 * f.den
            /\ (0 <= l.num /\ l.num <= 10 * l.den) => f = l

\* C12 witness: a declining history (8, then 0) whose line is negative at the
\* next semester gave the forecast 0.
C12_Witness ==
    /\ metric.op = "predict_sgpa" /\ metric.value.ok
    /\ metric.value.line_value.num < 0
    /\ metric.value.predicted_sgpa.num = 0

\* The semesters of user_data: one point per record, its semester number and the
\* grade point of its first row.
RecordPoints ==
    [i \in {j \in 1..Len(user_data) : user_data[j].data.rows # <<>>} |->
        [x |-> _extract_semester_number(user_data[i].semester),
         y |-> SemesterValue(user_data[i])]]

\* C13: forecasting fails exactly when the table has fewer than 2 semesters;
\* otherwise the line is a least-squares line over one point per semester (it
\* satisfies both normal equations) and is evaluated at max(term_number) + 1.
C13_ForecastLeastSquares ==
    (metric.op = "predict_sgpa") =>
        LET sems == DOMAIN RecordPoints
            m == metric.value.model
            residual(i) ==
                IF i \in sems
                THEN m.den * RecordPoints[i].y - m.a - m.b * RecordPoints[i].x
                ELSE 0
            n == Len(user_data)
        IN  /\ metric.value.ok <=> Cardinality(sems) >= 2
            /\ metric.value.ok =>
                  /\ m.den > 0
                  /\ SeqSum([i \in 1..n |-> residual(i)]) = 0
                  /\ SeqSum([i \in 1..n |->
                               IF i \in sems THEN RecordPoints[i].x * residual(i) ELSE 0]) = 0
                  /\ \A i \in sems : RecordPoints[i].x < metric.value.next_semester
                  /\ \E i \in sems : RecordPoints[i].x + 1 = metric.value.next_semester
                  /\ metric.value.line_value.num = m.a + m.b * metric.value.next_semester
                  /\ metric.value.line_value.den = m.den

\* C13 witness: a forecast from two semesters with different numbers and a rising
\* grade point.
C13_Witness ==
    /\ metric.op = "predict_sgpa" /\ metric.value.ok
    /\ metric.value.model.b > 0
    /\ metric.value.next_semester = 3

\* The distinct subjects of the records handed to the analytics.
DistinctSubjects ==
    UNION {{user_data[i].data.rows[j].Subject : j \in 1..Len(user_data[i].data.rows)} :
              i \in 1..Len(user_data)}

InsufficientData ==
    {"No data available for clustering", "Insufficient features for clustering",
     "Need at least 3 subjects for clustering"}

\* C14: clustering fails with an insufficient-data error whenever the table has
\* fewer than 3 distinct subjects (or fewer than 2 of the CA/ESE/Lab/Total
\* columns) and returns no cluster result then; when it succeeds the number of
\* clusters is min(3, number of distinct subjects).
C14_ClusteringNeedsData ==
    (metric.op = "perform_clustering") =>
        /\ (\/ Cardinality(DistinctSubjects) < 3
            \/ \E i \in 1..Len(user_data) :
                  /\ user_data[i].data.rows # <<>>
                  /\ Cardinality(feature_cols \cap DOMAIN user_data[i].data.rows[1]) < 2) =>
              (~metric.value.ok /\ metric.value.error \in InsufficientData)
        /\ metric.value.ok =>
              /\ metric.value.n_clusters = Min(3, Cardinality(DistinctSubjects))
              /\ DOMAIN metric.value.cluster_info = 0..(metric.value.n_clusters - 1)
              /\ DOMAIN metric.value.clusters = DistinctSubjects

\* C14 witness: clustering failed for records with rows of exactly two distinct
\* subjects.
C14_Witness ==
    /\ metric.op = "perform_clustering"
    /\ Cardinality(DistinctSubjects) = 2
    /\ Len(user_data) = 2
    /\ ~metric.value.ok

(***************************************************************************)
(* Properties of the Metrics Engine on empty and repeated input            *)
(***************************************************************************)
\* The CombinedTable is empty: no records, or only records without rows.
EmptyCombinedTable == \A i \in 1..Len(user_data) : user_data[i].data.rows = <<>>

\* The documented default of every Metrics Engine operation.
DefaultOf(op) ==
    CASE op \in {"get_average_sgpa", "calculate_cgpa"} -> Zero
      [] op \in {"get_best_semester", "get_worst_semester"} -> NotAvailable
      [] op = "get_total_subjects" -> 0
      [] op = "get_performance_categories" -> [High |-> 0, Medium |-> 0, Low |-> 0]
      [] op = "get_ca_ese_correlation" -> NoCorrelation
      [] op \in {"get_subject_wise_average", "get_semester_wise_performance",
                 "get_statistical_summary"} -> <<>>
      [] op = "get_trend_analysis" -> NoTrend

MetricsEngineOps ==
    {"get_average_sgpa", "calculate_cgpa", "get_best_semester", "get_worst_semester",
     "get_total_subjects", "get_performance_categories", "get_ca_ese_correlation",
     "get_subject_wise_average", "get_semester_wise_performance",
     "get_statistical_summary", "get_trend_analysis"}

\* C15: on an empty CombinedTable every Metrics Engine operation returns its
\* default (0.0, "N/A", 0, zero counts, empty table, empty mapping) and none
\* raises.
C15_EmptyDefaults ==
    (EmptyCombinedTable /\ metric.op \in MetricsEngineOps) =>
        metric.value = DefaultOf(metric.op)

\* C15 witness: the trend analysis of a user whose only records have no rows
\* returned the empty mapping.
C15_Witness ==
    /\ user_data # <<>>
    /\ EmptyCombinedTable
    /\ metric.op = "get_trend_analysis"
    /\ metric.value = NoTrend

(***************************************************************************)
(* A session: the store operations and the analytics tabs over fetch(user)  *)
(***************************************************************************)
AnnotateInPlace(records) ==
    [i \in 1..Len(records) |->
        IF records[i].data.kind = "DataFrame"
        THEN [records[i] EXCEPT !.data.rows = AnnotatedRows(records[i])]
        ELSE records[i]]

\* The records of the caller after PerformanceAnalytics / MLAnalytics were
\* constructed over them: record['data'].copy() leaves every table as it was.
AfterCombine(records) == records

\* The operations the tabs call on the analytics objects.
SessionOps ==
    {"get_average_sgpa", "get_semester_wise_performance", "get_trend_analysis",
     "predict_sgpa", "perform_clustering"}

\* The result of op on analytics built over records. PerformanceAnalytics cannot
\* be constructed over a record whose data is no DataFrame (the constructor
\* raises); the sort and KMeans (random_state=42) give one fixed outcome for
\* one input.
ResultOf(op, records) ==
    IF op \in {"predict_sgpa", "perform_clustering"}
    THEN LET combined == PrepareMlData(records)
         IN  IF op = "predict_sgpa"
             THEN predict_sgpa(combined)
             ELSE perform_clustering(combined,
                      CHOOSE clusters \in [SubjectsOf(combined) -> 0..2] : TRUE)
    ELSE IF ~CanCombine(records)
    THEN Failed("TypeError")
    ELSE LET combined == CombineAllData(records)
         IN  CASE op = "get_average_sgpa" -> get_average_sgpa(combined)
               [] op = "get_semester_wise_performance" ->
                     get_semester_wise_performance(records, combined)
               [] OTHER ->
                     get_trend_analysis(records, combined,
                         CHOOSE order \in SortOrders(
                             get_semester_wise_performance(records, combined)) : TRUE)

\* A tab of the app: fetch the user's records, construct the analytics over
\* them and call one operation. On the JSON backend fetch hands out the very
\* tables the store holds.
Analyse(u, op) ==
    /\ ops < MaxOps
    /\ ops' = ops + 1
    /\ \E fetched \in GetUserData(u) :
          /\ user_data' = fetched
          /\ metric' = [op |-> op, value |-> ResultOf(op, fetched),
                        repeated |-> metric.op = op /\ user_data = fetched,
                        before |-> IF metric.op = op /\ user_data = fetched
                                   THEN metric.value
                                   ELSE ResultOf(op, fetched)]
    /\ jsData' = IF backend = "json" /\ u \in DOMAIN jsData
                 THEN [jsData EXCEPT ![u] = AfterCombine(@)]
                 ELSE jsData
    /\ lastOp' = [Op("analyse", u, "", "", <<>>, "none", "none")
                    EXCEPT !.others = [v \in Users |-> GetUserData(v)]]
    /\ UNCHANGED <<backend, pgForeignKey, pgUsers, pgResults, mgUsable, mgUsers,
                   mgResults, jsFile, usersFile, csvIn, csvOut, sessionVars>>

SessionNext ==
    \/ \E u \in Users, k \in SavedKeys, df \in UploadedTables :
          SaveResults(u, k[1], k[2], df)
    \/ \E u \in Users : ClearUserData(u)
    \/ NewSession
    \/ \E u \in Users, op \in SessionOps : Analyse(u, op)

SpecSession == Init /\ [][SessionNext]_vars

FirstRowSgpa(records) ==
    [i \in 1..Len(records) |->
        IF records[i].data.rows = <<>> THEN 0 ELSE records[i].data.rows[1].SGPA]

\* C17: the trend is computed over the first-row values of the records, ordered
\* by extracted term number ascending. With two or more points the recent
\* (overall) trend is "improving" exactly when the last value is greater than
\* the second-to-last (first) value and "declining" otherwise, ties included;
\* with one point both are "stable"; best, worst and average are the maximum,
\* the minimum and the mean of the sequence.
C17_TrendRules ==
    (metric.op = "get_trend_analysis" /\ ~metric.value.empty) =>
        LET t      == metric.value
            values == t.sgpa_values
            n      == Len(values)
            first  == FirstRowSgpa(user_data)
        IN  /\ n = Len(user_data)
            /\ \E o \in Perms([k \in 1..n |-> k]) :
                  /\ \A k \in 1..n : values[k] = first[o[k]]
                  /\ \A k \in 1..(n - 1) :
                        _extract_semester_number(user_data[o[k]].semester)
                            <= _extract_semester_number(user_data[o[k + 1]].semester)
            /\ n >= 2 =>
                  /\ (t.recent_trend = "improving") <=> (values[n] > values[n - 1])
                  /\ (t.overall_trend = "improving") <=> (values[n] > values[1])
                  /\ t.recent_trend \in {"improving", "declining"}
                  /\ t.overall_trend \in {"improving", "declining"}
            /\ n = 1 => t.recent_trend = "stable" /\ t.overall_trend = "stable"
            /\ \A k \in 1..n : t.worst_sgpa <= values[k] /\ values[k] <= t.best_sgpa
            /\ \E k \in 1..n : t.best_sgpa = values[k]
            /\ \E k \in 1..n : t.worst_sgpa = values[k]
            /\ t.average_sgpa.num * n = SeqSum(values) * t.average_sgpa.den

\* C17 witness: a trend over two semesters whose last two values are equal, so
\* that it is "declining".
C17_Witness ==
    /\ metric.op = "get_trend_analysis"
    /\ ~metric.value.empty
    /\ Len(metric.value.sgpa_values) >= 2
    /\ metric.value.sgpa_values[Len(metric.value.sgpa_values)]
          = metric.value.sgpa_values[Len(metric.value.sgpa_values) - 1]
    /\ metric.value.recent_trend = "declining"

(***************************************************************************)
(* Metrics Engine: improvement suggestions                                  *)
(***************************************************************************)
\* Tables of the suggestion checks: five subjects of which four are below the
\* mean, one subject alone, CA below, equal to and above ESE, grade points in
\* every tier, and a subject (Maths) that two tables hold.
AdviceTables ==
    {<<Row("Biology", 10, 40, 0, 400, 5), Row("Chemistry", 10, 40, 0, 400, 5),
       Row("English", 10, 40, 0, 400, 5), Row("Maths", 10, 40, 0, 400, 5),
       Row("Physics", 30, 60, 0, 900, 5)>>,
     <<Row("Maths", 30, 30, 0, 600, 7)>>,
     <<Row("Maths", 50, 30, 0, 800, 9), Row("Physics", 30, 20, 0, 500, 9),
       Row("Chemistry", 40, 28, 0, 680, 9)>>,
     <<Row("Maths", 40, 40, 0, 800, 0)>>}

AdviceInputs ==
    UNION {
        {[i \in 1..n |-> Record(ks[i][1], ks[i][2], DataFrame(ts[i]))] :
            ks \in {f \in [1..n -> StoreKeys] : \A i, j \in 1..n : i # j => f[i] # f[j]},
            ts \in [1..n -> AdviceTables]}
        : n \in 0..MaxSemesters}

\* A suggestion: its text and, for the weak-subjects line, the names joined
\* after it.
Suggestion(text, names) == [text |-> text, names |-> names]

UploadMore == Suggestion("Upload more data to get personalized suggestions", <<>>)

KeepUp ==
    Suggestion("Keep up the good work! Continue consistent performance across all subjects",
               <<>>)

\* avg_ca < avg_ese / avg_ese < avg_ca: the means of the two columns of the
\* combined table, compared by their sums.
AssessmentBalance(combined) ==
    LET ca  == SeqSum(Column(combined, "CA_Marks"))
        ese == SeqSum(Column(combined, "ESE_Marks"))
    IN  IF ca < ese
        THEN <<Suggestion("Focus on continuous assessment - your ESE performance is better than CA", <<>>)>>
        ELSE IF ese < ca
        THEN <<Suggestion("Prepare more for end semester exams - your CA performance is strong", <<>>)>>
        ELSE <<>>

AtOrBelowMean(subject_avg) ==
    SelectSeq(subject_avg,
              LAMBDA r : r.Total * Len(subject_avg) <= SeqSum(Column(subject_avg, "Total")))

\* subject_avg[subject_avg['Total'] < subject_avg['Total'].mean()]
WeakSubjectRows(subject_avg) ==
    SelectSeq(subject_avg,
              LAMBDA r : r.Total * Len(subject_avg) < SeqSum(Column(subject_avg, "Total")))

\* weak_subjects['Subject'].head(3).tolist()
Head3(rows) == [i \in 1..Min(3, Len(rows)) |-> rows[i].Subject]

WeakSubjects(combined) ==
    LET weak_subjects == WeakSubjectRows(get_subject_wise_average(combined))
    IN  IF weak_subjects = <<>>
        THEN <<>>
        ELSE <<Suggestion("Focus on improving: ", Head3(weak_subjects))>>

\* The grade-point tier of avg_sgpa = get_average_sgpa(): below 6.0, from 8.0.
GradePointTier(avg_sgpa) ==
    IF avg_sgpa.num > 0
    THEN IF avg_sgpa.num < 6 * avg_sgpa.den
         THEN <<Suggestion("Consider studying strategies to improve overall SGPA", <<>>)>>
         ELSE IF avg_sgpa.num >= 8 * avg_sgpa.den
         THEN <<Suggestion("Excellent performance! Maintain consistency across all subjects", <<>>)>>
         ELSE <<>>
    ELSE <<>>

KeepUpAlways(suggestions) == suggestions \o <<KeepUp>>

\* if not suggestions: suggestions.append("Keep up the good work! ...")
KeepUpWhenNone(suggestions) == IF suggestions = <<>> THEN <<KeepUp>> ELSE suggestions

get_improvement_suggestions(combined) ==
    IF combined = <<>>
    THEN <<UploadMore>>
    ELSE KeepUpWhenNone(AssessmentBalance(combined) \o WeakSubjects(combined)
                            \o GradePointTier(get_average_sgpa(combined)))

GetImprovementSuggestions ==
    Compute("get_improvement_suggestions",
            get_improvement_suggestions(CombineAllData(user_data)))

AdviceInit ==
    /\ StoreIdle
    /\ user_data \in AdviceInputs
    /\ metric = [op |-> "none"]
    /\ csvIn = [op |-> "none"]
    /\ csvOut = [op |-> "none"]

AdviceNext ==
    \/ GetImprovementSuggestions
    \/ GetSubjectWiseAverage
    \/ GetAverageSgpa

SpecAdvice == AdviceInit /\ [][AdviceNext]_vars

\* The heuristic a suggestion comes from: 1 assessment balance, 2 weak
\* subjects, 3 grade-point tier, 4 the generic encouragement, 0 anything else.
HeuristicOf(suggestion) ==
    CASE suggestion.text \in
            {"Focus on continuous assessment - your ESE performance is better than CA",
             "Prepare more for end semester exams - your CA performance is strong"} -> 1
      [] suggestion.text = "Focus on improving: " -> 2
      [] suggestion.text \in
            {"Consider studying strategies to improve overall SGPA",
             "Excellent performance! Maintain consistency across all subjects"} -> 3
      [] suggestion.text =
            "Keep up the good work! Continue consistent performance across all subjects" -> 4
      [] OTHER -> 0

\* The heuristics that fire on user_data, from the rows of its tables.
FiredOn(records) ==
    LET rows    == CombineAllData(records)
        first   == FirstRowSgpa(records)
        valid   == {i \in 1..Len(records) : first[i] > 0}
        total   == SeqSum([i \in 1..Len(records) |-> IF first[i] > 0 THEN first[i] ELSE 0])
        average == get_subject_wise_average(rows)
    IN  (IF SeqSum([i \in 1..Len(rows) |-> rows[i].CA_Marks - rows[i].ESE_Marks]) # 0
         THEN {1} ELSE {})
        \cup (IF \E i \in 1..Len(average) :
                    average[i].Total * Len(average)
                        < SeqSum([j \in 1..Len(average) |-> average[j].Total])
              THEN {2} ELSE {})
        \cup (IF valid # {} /\ (total < 6 * Cardinality(valid) \/ total >= 8 * Cardinality(valid))
              THEN {3} ELSE {})

\* C18: the suggestions are a non-empty list of at most 3 strings, those of the
\* heuristics that fired in the order assessment balance, weak subjects,
\* grade-point tier, one string each; the generic encouragement is in the list
\* exactly when the table is not empty and no heuristic fired, and it is then
\* the only element.
C18_SuggestionList ==
    (metric.op = "get_improvement_suggestions") =>
        LET list  == metric.value
            fired == FiredOn(user_data)
            empty == CombineAllData(user_data) = <<>>
        IN  /\ Len(list) \in 1..3
            /\ \A i, j \in 1..Len(list) : i < j => HeuristicOf(list[i]) < HeuristicOf(list[j])
            /\ ~empty => \A h \in 1..3 :
                  (\E i \in 1..Len(list) : HeuristicOf(list[i]) = h) <=> h \in fired
            /\ (\E i \in 1..Len(list) : HeuristicOf(list[i]) = 4) <=> (~empty /\ fired = {})
            /\ (\E i \in 1..Len(list) : HeuristicOf(list[i]) = 4) => Len(list) = 1
            /\ empty => list = <<UploadMore>>

\* C18 witness: the generic encouragement alone, for a table with rows.
C18_Witness ==
    /\ metric.op = "get_improvement_suggestions"
    /\ metric.value = <<KeepUp>>
    /\ CombineAllData(user_data) # <<>>

\* The positions of subject_avg flagged as weak against the threshold
\* num / den, and the names the suggestion must then carry.
NamesBelow(average, num, den) ==
    LET weak == {i \in 1..Len(average) : average[i].Total * den < num}
        firstThree == {i \in weak : Cardinality({j \in weak : j < i}) < 3}
    IN  [k \in 1..Cardinality(firstThree) |->
            average[CHOOSE i \in firstThree : Cardinality({j \in firstThree : j < i}) = k - 1].Subject]

WeakLine(list) == SelectSeq(list, LAMBDA sg : HeuristicOf(sg) = 2)

\* C19 as stated: the weak-subjects line names the (first three at most)
\* subjects whose average Total is below the mean Total of the rows of the
\* combined table, and is there exactly when there is such a subject.
C19_BelowOverallMean ==
    (metric.op = "get_improvement_suggestions") =>
        LET rows  == CombineAllData(user_data)
            names == NamesBelow(get_subject_wise_average(rows),
                                10 * SeqSum([i \in 1..Len(rows) |-> rows[i].Total]),
                                Len(rows))
            line  == WeakLine(metric.value)
        IN  /\ (line # <<>>) <=> (names # <<>>)
            /\ line # <<>> => line[1].names = names

\* C19 amended: the threshold is the mean of the subject-wise average Totals.
C19_BelowMeanOfSubjectAverages ==
    (metric.op = "get_improvement_suggestions") =>
        LET average == get_subject_wise_average(CombineAllData(user_data))
            names == NamesBelow(average,
                                SeqSum([i \in 1..Len(average) |-> average[i].Total]),
                                Len(average))
            line  == WeakLine(metric.value)
        IN  /\ (line # <<>>) <=> (names # <<>>)
            /\ line # <<>> => line[1].names = names /\ Len(names) \in 1..3

\* C19 witness: four subjects are below the mean and the line names three.
C19_Witness ==
    /\ metric.op = "get_improvement_suggestions"
    /\ WeakLine(metric.value) # <<>>
    /\ Len(WeakLine(metric.value)[1].names) = 3
    /\ Len(WeakSubjectRows(get_subject_wise_average(CombineAllData(user_data)))) > 3

(***************************************************************************)
(* PDF Ingestion Adapter: extract_results_from_text                         *)
(***************************************************************************)
MaxLines == 2

UpperCase ==
    <<"A", "B", "C", "D", "E", "F", "G", "H", "I", "J", "K", "L", "M", "N", "O", "P", "Q", "R", "S", "T", "U", "V", "W", "X", "Y", "Z">>

LowerCase ==
    <<"a", "b", "c", "d", "e", "f", "g", "h", "i", "j", "k", "l", "m", "n", "o", "p", "q", "r", "s", "t", "u", "v", "w", "x", "y", "z">>

DigitChars == <<"0", "1", "2", "3", "4", "5", "6", "7", "8", "9">>

Letters == Range(UpperCase) \cup Range(LowerCase)

DigitSet == Range(DigitChars)

\* \s
Whitespace == {" ", "\n", "\t"}

\* [A-Za-z\s]
SubjectChars == Letters \cup Whitespace

\* The lines of the extracted text of a marksheet, character by character: rows
\* with and without a grade point, punctuated marks, headers with and without
\* numbers, a run of digits, lines below 10 characters, padding, and lines that
\* hold two tables side by side.
LinePool ==
    {
     \* "Maths 10 20 30 60 8.5"
     <<"M", "a", "t", "h", "s", " ", "1", "0", " ", "2", "0", " ", "3", "0", " ", "6", "0", " ", "8", ".", "5">>,
     \* "Maths 10 20 30 60"
     <<"M", "a", "t", "h", "s", " ", "1", "0", " ", "2", "0", " ", "3", "0", " ", "6", "0">>,
     \* "Maths: 10, 20, 30, 60"
     <<"M", "a", "t", "h", "s", ":", " ", "1", "0", ",", " ", "2", "0", ",", " ", "3", "0", ",", " ", "6", "0">>,
     \* "Total Marks 10 20 30 60"
     <<"T", "o", "t", "a", "l", " ", "M", "a", "r", "k", "s", " ", "1", "0", " ", "2", "0", " ", "3", "0", " ", "6", "0">>,
     \* "Maths 1234"
     <<"M", "a", "t", "h", "s", " ", "1", "2", "3", "4">>,
     \* "M 1 2 3 4"
     <<"M", " ", "1", " ", "2", " ", "3", " ", "4">>,
     \* "Subject CA ESE Lab Total SGPA"
     <<"S", "u", "b", "j", "e", "c", "t", " ", "C", "A", " ", "E", "S", "E", " ", "L", "a", "b", " ", "T", "o", "t", "a", "l", " ", "S", "G", "P", "A">>,
     \* "Maths 1 2 3 4 Total 5 6 7 8 9"
     <<"M", "a", "t", "h", "s", " ", "1", " ", "2", " ", "3", " ", "4", " ", "T", "o", "t", "a", "l", " ", "5", " ", "6", " ", "7", " ", "8", " ", "9">>,
     \* "  Maths 1 2 3 8.5  "
     <<" ", " ", "M", "a", "t", "h", "s", " ", "1", " ", "2", " ", "3", " ", "8", ".", "5", " ", " ">>,
     \* "SGPA: 8.5"
     <<"S", "G", "P", "A", ":", " ", "8", ".", "5">>,
     \* ""
     <<>>,
     \* "Total 1 2 3 4 Maths 5 6 7 8"
     <<"T", "o", "t", "a", "l", " ", "1", " ", "2", " ", "3", " ", "4", " ", "M", "a", "t", "h", "s", " ", "5", " ", "6", " ", "7", " ", "8">>}

PdfTexts ==
    {[op |-> "pdf", lines |-> t] : t \in UNION {[1..n -> LinePool] : n \in 1..MaxLines}}

\* str.lower() of one character
Lower(c) ==
    IF \E i \in 1..Len(UpperCase) : UpperCase[i] = c
    THEN LowerCase[CHOOSE i \in 1..Len(UpperCase) : UpperCase[i] = c]
    ELSE c

DigitValue(c) == (CHOOSE i \in 1..Len(DigitChars) : DigitChars[i] = c) - 1

\* int(group)
RECURSIVE IntOf(_)
IntOf(chars) ==
    IF chars = <<>>
    THEN 0
    ELSE 10 * IntOf(SubSeq(chars, 1, Len(chars) - 1)) + DigitValue(chars[Len(chars)])

\* float(group): num / 10^scale
FloatOf(chars) ==
    LET dots == {i \in 1..Len(chars) : chars[i] = "."}
    IN  [num   |-> IntOf(SelectSeq(chars, LAMBDA c : c # ".")),
         scale |-> IF dots = {} THEN 0 ELSE Len(chars) - (CHOOSE i \in dots : TRUE)]

\* The first position from pos on that holds no character of chars (one past
\* the end without one): where a greedy run of chars starting at pos ends.
Skip(line, pos, chars) ==
    CHOOSE q \in pos..(Len(line) + 1) :
        /\ q = Len(line) + 1 \/ line[q] \notin chars
        /\ \A p \in pos..(q - 1) : line[p] \in chars

\* str.strip()
StripLine(line) ==
    LET kept == {i \in 1..Len(line) : line[i] \notin Whitespace}
    IN  IF kept = {}
        THEN <<>>
        ELSE SubSeq(line, CHOOSE i \in kept : \A j \in kept : i <= j,
                          CHOOSE i \in kept : \A j \in kept : j <= i)

\* word in s
Contains(s, word) ==
    \E i \in 1..(Len(s) - Len(word) + 1) : SubSeq(s, i, i + Len(word) - 1) = word

header_words ==
    {<<"s", "u", "b", "j", "e", "c", "t">>, <<"c", "o", "u", "r", "s", "e">>, <<"m", "a", "r", "k", "s">>, <<"t", "o", "t", "a", "l">>, <<"s", "g", "p", "a">>}

\* any(word in subject.lower() for word in [...])
IsHeader(subject) ==
    \E word \in header_words : Contains([i \in 1..Len(subject) |-> Lower(subject[i])], word)

\* A match is the sequence of its groups, each the span <<from, to>> of the
\* characters from .. to - 1; no match is the empty sequence and no number
\* the span <<0, 0>>.
NoSpan == <<0, 0>>

\* (\d+) at position a
NumberFrom(line, a) ==
    IF a <= Len(line) /\ line[a] \in DigitSet THEN <<a, Skip(line, a, DigitSet)>> ELSE NoSpan

\* \s+(\d+) from pos: each run is greedy, and no shorter run lets what follows
\* match.
NumberSpan(line, pos) ==
    IF pos <= Len(line) /\ line[pos] \in Whitespace
    THEN NumberFrom(line, Skip(line, pos, Whitespace))
    ELSE NoSpan

\* (\d+\.?\d*) where span is the (\d+) in front
WithFraction(line, span) ==
    IF span # NoSpan /\ span[2] <= Len(line) /\ line[span[2]] = "."
    THEN <<span[1], Skip(line, span[2] + 1, DigitSet)>>
    ELSE span

Prepend(span, rest) == IF rest = <<>> THEN <<>> ELSE <<span>> \o rest

AppendSpan(spans, span) == IF span = NoSpan THEN <<>> ELSE Append(spans, span)

\* (\s+(\d+)) k times from pos
RECURSIVE Numbers(_, _, _)
RECURSIVE NumbersAfter(_, _, _)
NumbersAfter(line, span, k) ==
    IF span = NoSpan
    THEN <<>>
    ELSE IF k = 1 THEN <<span>> ELSE Prepend(span, Numbers(line, span[2], k - 1))

Numbers(line, pos, k) == NumbersAfter(line, NumberSpan(line, pos), k)

\* \s+(\d+\.?\d*) after the four numbers of pattern 1
WithGrade(line, four) ==
    IF four = <<>>
    THEN <<>>
    ELSE AppendSpan(four, WithFraction(line, NumberSpan(line, four[4][2])))

\* What follows the subject group in pattern 1 (four numbers and a grade
\* point) and in pattern 2 (four numbers).
AfterSubject(line, pos, pattern) ==
    IF pattern = 2 THEN Numbers(line, pos, 4) ELSE WithGrade(line, Numbers(line, pos, 4))

\* ([A-Za-z\s]+) from s is greedy: of the ends that let the rest match, the last.
MatchEnding(line, s, pattern, ends) ==
    IF ends = {}
    THEN <<>>
    ELSE <<<<s, 1 + CHOOSE x \in ends : \A y \in ends : y <= x>>>>
            \o AfterSubject(line, 1 + (CHOOSE x \in ends : \A y \in ends : y <= x), pattern)

\* Patterns 1 and 2 tried at position s.
MatchAt(line, s, pattern) ==
    IF line[s] \notin SubjectChars
    THEN <<>>
    ELSE MatchEnding(line, s, pattern,
                     {e \in s..(Skip(line, s, SubjectChars) - 1) :
                         AfterSubject(line, e + 1, pattern) # <<>>})

\* The leftmost of the positions a pattern matches at.
Leftmost(line, pattern, starts) ==
    IF starts = {}
    THEN <<>>
    ELSE MatchAt(line, CHOOSE x \in starts : \A y \in starts : x <= y, pattern)

DigitCount(line, pos) == Cardinality({q \in pos..Len(line) : line[q] \in DigitSet})

\* (\d+) from a in pattern 3: the longest run that leaves a digit for each of
\* the k - 1 groups still to come.
LongestUpTo(line, a, last, k) ==
    CHOOSE x \in (a + 1)..last :
        /\ DigitCount(line, x) >= k - 1
        /\ \A y \in (a + 1)..last : DigitCount(line, y) >= k - 1 => y <= x

\* (.*?(\d+)) k times from pos, with at least k digits from pos on: .*? stops
\* at the first digit.
RECURSIVE LazyNumbers(_, _, _)
RECURSIVE LazyNumbersAt(_, _, _)
LazyNumbersAt(line, span, k) ==
    IF k = 1 THEN <<span>> ELSE <<span>> \o LazyNumbers(line, span[2], k - 1)

LazyNumber(line, a, k) == <<a, LongestUpTo(line, a, Skip(line, a, DigitSet), k)>>

LazyNumbers(line, pos, k) ==
    LazyNumbersAt(line, LazyNumber(line, Skip(line, pos, Range(line) \ DigitSet), k), k)

LooseFrom(line, s, e) ==
    IF DigitCount(line, e) < 4 THEN <<>> ELSE <<<<s, e>>>> \o LazyNumbers(line, e, 4)

\* Pattern 3, ([A-Za-z\s]+).*?(\d+).*?(\d+).*?(\d+).*?(\d+): it matches from the
\* first letter or space of the line when four digits come after the run.
MatchLoose(line, starts) ==
    IF starts = {}
    THEN <<>>
    ELSE LooseFrom(line, CHOOSE x \in starts : \A y \in starts : x <= y,
                   Skip(line, CHOOSE x \in starts : \A y \in starts : x <= y, SubjectChars))

\* match.groups()
Groups(line, spans) == [i \in 1..Len(spans) |-> SubSeq(line, spans[i][1], spans[i][2] - 1)]

\* re.search(patterns[pattern - 1], line).groups(): the leftmost match, the
\* empty sequence without one.
re_search(pattern, line) ==
    IF pattern = 3
    THEN Groups(line, MatchLoose(line, {s \in 1..Len(line) : line[s] \in SubjectChars}))
    ELSE Groups(line, Leftmost(line, pattern,
                               {s \in 1..Len(line) : MatchAt(line, s, pattern) # <<>>}))

JoinLines(lines) ==
    Concat([i \in 1..Len(lines) |-> IF i < Len(lines) THEN lines[i] \o <<"\n">> ELSE lines[i]])

\* The positions of text where SGPA[:\s]*(\d+\.?\d*) matches, in any case.
SgpaStarts(text) ==
    {i \in 1..(Len(text) - 4) :
        /\ [j \in 1..4 |-> Lower(text[i + j - 1])] = <<"s", "g", "p", "a">>
        /\ NumberFrom(text, Skip(text, i + 4, Whitespace \cup {":"})) # NoSpan}

SgpaAt(text, starts) ==
    IF starts = {}
    THEN [num |-> 0, scale |-> 0]
    ELSE FloatOf(Groups(text,
             <<WithFraction(text, NumberFrom(text,
                   Skip(text, 4 + (CHOOSE x \in starts : \A y \in starts : x <= y),
                        Whitespace \cup {":"})))>>)[1])

\* re.search(sgpa_pattern, text, re.IGNORECASE) over the whole text: the grade
\* point of the semester, 0 without a match.
SearchSgpa(text) == SgpaAt(text, SgpaStarts(text))

RowWithSummedTotal(groups, semester_sgpa) ==
    [Subject   |-> StripLine(groups[1]),
     CA_Marks  |-> IntOf(groups[2]),
     ESE_Marks |-> IntOf(groups[3]),
     Lab_Marks |-> IntOf(groups[4]),
     Total     |-> IntOf(groups[2]) + IntOf(groups[3]) + IntOf(groups[4]),
     SGPA      |-> IF Len(groups) > 5 THEN FloatOf(groups[6]) ELSE semester_sgpa]

\* The result row of a match.
ResultRow(groups, semester_sgpa) ==
    [Subject   |-> StripLine(groups[1]),
     CA_Marks  |-> IntOf(groups[2]),
     ESE_Marks |-> IntOf(groups[3]),
     Lab_Marks |-> IntOf(groups[4]),
     Total     |-> IntOf(groups[5]),
     SGPA      |-> IF Len(groups) > 5 THEN FloatOf(groups[6]) ELSE semester_sgpa]

\* for pattern in patterns: a match with a header word in its subject goes on
\* to the next pattern ('continue'), any other match appends a row and ends
\* the loop ('break').
RECURSIVE TryPatterns(_, _, _)
RECURSIVE RowOrNext(_, _, _, _)
RowOrNext(line, pattern, semester_sgpa, groups) ==
    IF groups # <<>> /\ ~IsHeader(StripLine(groups[1]))
    THEN <<ResultRow(groups, semester_sgpa)>>
    ELSE TryPatterns(line, pattern + 1, semester_sgpa)

TryPatterns(line, pattern, semester_sgpa) ==
    IF pattern > 3
    THEN <<>>
    ELSE RowOrNext(line, pattern, semester_sgpa, re_search(pattern, line))

\* The rows one stripped line of the text adds to results.
LineRows(line, semester_sgpa) ==
    IF Len(line) < 10 THEN <<>> ELSE TryPatterns(line, 1, semester_sgpa)

\* None without a row, else the DataFrame of the rows; by_line keeps the rows
\* each line gave.
Collected(by_line) ==
    [ret     |-> IF \A i \in 1..Len(by_line) : by_line[i] = <<>> THEN "None" ELSE "DataFrame",
     rows    |-> Concat(by_line),
     by_line |-> by_line]

ExtractWith(lines, semester_sgpa) ==
    Collected([i \in 1..Len(lines) |-> LineRows(StripLine(lines[i]), semester_sgpa)])

extract_results_from_text(lines) == ExtractWith(lines, SearchSgpa(JoinLines(lines)))

ExtractResultsFromText ==
    /\ csvOut.op = "none"
    /\ csvOut' = [op |-> "extract_results_from_text",
                   result |-> extract_results_from_text(csvIn.lines)]
    /\ UNCHANGED <<csvIn, user_data, metric>>
    /\ StoreQuiet

ExtractInit ==
    /\ StoreIdle
    /\ user_data = <<>>
    /\ metric = [op |-> "none"]
    /\ csvIn \in PdfTexts
    /\ csvOut = [op |-> "none"]

ExtractNext == ExtractResultsFromText

SpecExtract == ExtractInit /\ [][ExtractNext]_vars

\* The groups of the first pattern that matches a line, none when none does.
FirstMatch(line) ==
    IF re_search(1, line) # <<>> THEN re_search(1, line)
    ELSE IF re_search(2, line) # <<>> THEN re_search(2, line)
    ELSE re_search(3, line)

\* What a line gives when its first match decides.
FirstMatchRows(line, rows, first) ==
    /\ Len(rows) <= 1
    /\ Len(line) < 10 => rows = <<>>
    /\ (Len(line) >= 10 /\ first = <<>>) => rows = <<>>
    /\ (Len(line) >= 10 /\ first # <<>>) =>
          IF IsHeader(StripLine(first[1]))
          THEN rows = <<>>
          ELSE Len(rows) = 1 /\ rows[1].Subject = StripLine(first[1])

\* C20: on each line of at least 10 characters the patterns are tried in order
\* and the first that matches decides: the line gives at most one row, the row
\* of that match, and no row when the subject of that match holds a header
\* word; a line below 10 characters and a line no pattern matches give no row.
C20_FirstMatchDecides ==
    (csvOut.op = "extract_results_from_text") =>
        \A i \in 1..Len(csvIn.lines) :
            FirstMatchRows(StripLine(csvIn.lines[i]), csvOut.result.by_line[i],
                           FirstMatch(StripLine(csvIn.lines[i])))

\* The matches of a line that are no header: one of them gave the line's row.
DataMatches(line) ==
    {re_search(k, line) : k \in 1..3} \ ({<<>>} \cup {g \in {re_search(k, line) : k \in 1..3} :
                                                        g # <<>> /\ IsHeader(StripLine(g[1]))})

\* A row holds the groups of a match: the marks are the second to the fifth
\* group and the grade point is the sixth group, the default without one.
RowOfGroups(row, groups, default) ==
    /\ row.Subject = StripLine(groups[1])
    /\ row.CA_Marks = IntOf(groups[2])
    /\ row.ESE_Marks = IntOf(groups[3])
    /\ row.Lab_Marks = IntOf(groups[4])
    /\ row.Total = IntOf(groups[5])
    /\ Len(groups) = 6 => row.SGPA = FloatOf(groups[6])
    /\ Len(groups) = 5 => row.SGPA = default

HasSubjectColumn(columns) == \E i \in 1..Len(columns) : Strip(columns[i]) = "Subject"

\* C22: the adapter returns None exactly when the header, its names stripped,
\* has no Subject column; a returned table holds every optional column the
\* file did not have, with 0 in every row.
C22_FailsIffNoSubject ==
    (csvOut.op = "parse_csv_file") =>
        /\ (csvOut.result.ret = "None") <=> ~HasSubjectColumn(csvIn.columns)
        /\ csvOut.result.ret = "DataFrame" =>
              \A c \in numeric_columns :
                  (\A i \in 1..Len(csvIn.columns) : Strip(csvIn.columns[i]) # c) =>
                      /\ \E i \in 1..Len(csvOut.result.columns) : csvOut.result.columns[i] = c
                      /\ \A k \in 1..Len(csvOut.result.rows) :
                            NumericValue(csvIn.columns, csvIn.lines[csvOut.result.rows[k].index], c) = 0

\* Two fractions denote the same number.
SameNumber(a, b) == a.num * b.den = b.num * a.den

\* C23: all CGPA computations agree: utils.calculate_cgpa(user_data) and the
\* calculate_cgpa() of the analytics both give get_average_sgpa(), the mean of
\* the first-row grade points of the semesters that are above 0.
C23_CgpaAgree ==
    (metric.op \in {"utils_calculate_cgpa", "calculate_cgpa"}) =>
        /\ SameNumber(metric.value, get_average_sgpa(CombineAllData(user_data)))
        /\ SameNumber(metric.value, MeanOfPositive(FirstRowSgpa(user_data)))

\* The first-row grade point of the semester a headline metric names.
GradePointOf(name, records) ==
    FirstRowSgpa(records)[CHOOSE i \in 1..Len(records) :
        FormatSemester(<<records[i].academic_year, records[i].semester>>) = name]

\* C30: the trend statistics use the semesters of the headline metrics: the
\* average of the trend is get_average_sgpa(), and its best and worst values
\* are the grade points of the semesters that get_best_semester and
\* get_worst_semester name.
C30_TrendAgreesWithHeadline ==
    (metric.op = "get_trend_analysis" /\ ~metric.value.empty) =>
        LET combined == CombineAllData(user_data)
        IN  /\ SameNumber(metric.value.average_sgpa, get_average_sgpa(combined))
            /\ get_best_semester(combined) # NotAvailable =>
                  metric.value.best_sgpa = GradePointOf(get_best_semester(combined), user_data)
            /\ get_worst_semester(combined) # NotAvailable =>
                  metric.value.worst_sgpa = GradePointOf(get_worst_semester(combined), user_data)

\* What the three headline metrics of one table say about each other.
HeadlineAgree(best, worst, average, records) ==
    /\ (best = NotAvailable) <=> (worst = NotAvailable)
    /\ (worst = NotAvailable) <=> (average.num = 0)
    /\ average.den > 0
    /\ (best # NotAvailable /\ worst # NotAvailable) =>
          /\ GradePointOf(worst, records) * average.den <= average.num
          /\ average.num <= GradePointOf(best, records) * average.den
    /\ (Cardinality(Counted) = 1) => best = worst

HandleData(h) == IF h = 1 THEN jsData ELSE jsOther

\* The last operation without its history, as the next one remembers it.
Previous(op) ==
    [op |-> op.op, user |-> op.user, year |-> op.year, term |-> op.term,
     ret |-> op.ret, handle |-> IF "handle" \in DOMAIN op THEN op.handle ELSE 0]

HandleOp(h, o, u, y, t, rows, r) ==
    [handle |-> h, previous |-> Previous(lastOp)] @@ Op(o, u, y, t, rows, r, "none")

\* DatabaseManager.__init__ in session h: self.data = self.load_data().
OpenHandle(h) ==
    /\ ops < MaxOps
    /\ ops' = ops + 1
    /\ jsData' = IF h = 1 THEN LoadData(jsFile) ELSE jsData
    /\ jsOther' = IF h = 1 THEN jsOther ELSE LoadData(jsFile)
    /\ lastOp' = HandleOp(h, "open", "", "", "", <<>>, "none")
    /\ UNCHANGED <<backend, pgForeignKey, pgUsers, pgResults, mgUsable, mgUsers,
                   mgResults, jsFile, usersFile, calls, session_state>>
    /\ UNCHANGED <<user_data, metric, csvIn, csvOut>>

\* DatabaseManager.save_results in session h: the record goes into the
\* handle's self.data, and save_data writes the whole of self.data to the file.
HandleSaveResults(h, u, y, t, df) ==
    /\ ops < MaxOps
    /\ ops' = ops + 1
    /\ jsData' = IF h = 1 THEN JsSaveResultsData(jsData, u, y, t, df) ELSE jsData
    /\ jsOther' = IF h = 1 THEN jsOther ELSE JsSaveResultsData(jsOther, u, y, t, df)
    /\ jsFile' = [exists |-> TRUE,
                  text |-> SerializeData(JsSaveResultsData(HandleData(h), u, y, t, df))]
    /\ lastOp' = HandleOp(h, "save", u, y, t, df, "true")
    /\ UNCHANGED <<backend, pgForeignKey, pgUsers, pgResults, mgUsable, mgUsers,
                   mgResults, usersFile, calls, session_state>>
    /\ UNCHANGED <<user_data, metric, csvIn, csvOut>>

HandlesNext ==
    \/ \E h \in Callers : OpenHandle(h)
    \/ \E h \in Callers, u \in Users, k \in SavedKeys, df \in UploadedTables :
          HandleSaveResults(h, u, k[1], k[2], df)

\* Both sessions built their handle before student_data.json existed.
HandlesInit == Init /\ backend = "json"

SpecHandles == HandlesInit /\ [][HandlesNext]_vars

\* C24: no update is lost between sessions on the JSON store. When one handle
\* saved a record for a user and another handle on the same file afterwards
\* saved one for a different user, a store opened after both still returns the
\* first user's record.
C24_NoLostUpdate ==
    (/\ lastOp.op = "save" /\ lastOp.ret = "true"
     /\ lastOp.previous.op = "save" /\ lastOp.previous.ret = "true"
     /\ lastOp.previous.handle # lastOp.handle
     /\ lastOp.previous.user # lastOp.user) =>
        ExistingRecord(JsGetUserData(LoadData(jsFile), lastOp.previous.user),
                       lastOp.previous.year, lastOp.previous.term) # 0

(***************************************************************************)
(* auth.create_user as the steps two sessions can interleave: it reads     *)
(* users.json, tests the name on its own copy, and writes the copy back.   *)
(***************************************************************************)
\* users = load_users(); if username in users: return False
CreateUserLoad(c, username, form) ==
    /\ calls[c].pc = "idle"
    /\ calls' = [calls EXCEPT ![c] =
                    [pc |-> IF username \in DOMAIN usersFile THEN "done" ELSE "checked",
                     username |-> username, form |-> form, users |-> usersFile,
                     ret |-> IF username \in DOMAIN usersFile THEN "false" ELSE "none"]]
    /\ UNCHANGED <<storeVars, jsOther, session_state>>
    /\ UNCHANGED <<user_data, metric, csvIn, csvOut>>

\* users[username] = {...}; return save_users(users)
CreateUserSave(c) ==
    /\ calls[c].pc = "checked"
    /\ LET r == AuthCreateUser(calls[c].users, calls[c].username, calls[c].form)
       IN  /\ usersFile' = r.users
           /\ calls' = [calls EXCEPT ![c].pc = "done", ![c].users = r.users,
                                     ![c].ret = r.ret]
    /\ UNCHANGED <<backend, pgForeignKey, pgUsers, pgResults, mgUsable, mgUsers,
                   mgResults, jsData, jsFile, lastOp, ops, jsOther, session_state>>
    /\ UNCHANGED <<user_data, metric, csvIn, csvOut>>

SignUpNext ==
    \/ \E c \in Callers, u \in Users, form \in SignUps : CreateUserLoad(c, u, form)
    \/ \E c \in Callers : CreateUserSave(c)

SpecSignUp == Init /\ [][SignUpNext]_vars

\* The account create_user stores for a sign-up form.
AccountOf(form) ==
    [password |-> hash_password(form.password),
     full_name |-> form.full_name, email |-> form.email]

\* C25: sign-up is atomic per username. Of two create_user calls for one
\* username, however their steps interleave, at most one returns True, and the
\* stored account is that of the call that returned True.
C25_SignUpAtomic ==
    \A c \in Callers, d \in Callers :
        (/\ c # d
         /\ calls[c].pc = "done" /\ calls[d].pc = "done"
         /\ calls[c].username = calls[d].username) =>
            /\ ~(calls[c].ret = "true" /\ calls[d].ret = "true")
            /\ (calls[c].ret = "true") =>
                  usersFile[calls[c].username] = AccountOf(calls[c].form)

(***************************************************************************)
(* Saves that fail: a table with a cell float() rejects, a file write that *)
(* raises.                                                                  *)
(***************************************************************************)
MathAbsent == Row("Maths", NotConvertible, 45, 0, 750, 6)

\* Tables handed to save_results that hold a cell float() raises on.
FailingTables == {<<MathAbsent>>, <<Phys7, MathAbsent>>}

FailedSaveNext ==
    \E u \in Users, k \in SavedKeys, df \in UploadedTables \cup FailingTables,
       write \in WriteOutcomes :
          SaveResultsWith(u, k[1], k[2], df, write)

SpecFailedSave == Init /\ [][FailedSaveNext]_vars

\* C26: a failed save changes nothing. On every backend, when save_results
\* returns False, fetch of that user returns exactly what it returned before
\* the call: the prior record is neither removed nor replaced.
C26_FailedSaveChangesNothing ==
    (lastOp.op = "save" /\ lastOp.ret = "false") =>
        GetUserData(lastOp.user) = lastOp.before

\* C29: after the sign-up of u succeeded, get_user(u) of the active backend
\* returns an account, on every backend, so that a save for a signed-up user is
\* never rejected for a missing account row.
C29_SignUpReachesBackend ==
    /\ (lastOp.op = "auth_create_user" /\ lastOp.ret = "true") =>
          DbGetUser(lastOp.user) # <<>>
    /\ (lastOp.op = "save" /\ lastOp.user \in DOMAIN usersFile /\ backend = "postgres") =>
          lastOp.ret = "true"

(***************************************************************************)
(* One browser session: the login form, the logout button and main()       *)
(***************************************************************************)
Passwords == {f.password : f \in SignUps}

\* The names the login form can submit: an account name or nothing typed.
LoginNames == Users \cup {""}

\* auth.authenticate_user on the contents of users.json.
authenticate_user(users, username, password) ==
    /\ username \in DOMAIN users
    /\ users[username].password = hash_password(password)

AuthenticatedAnyway(state, username, ok) ==
    [state EXCEPT !.authenticated = TRUE, !.username = username]

\* st.session_state after the login form was submitted with username, ok being
\* what authenticate_user returned.
AfterLogin(state, username, ok) ==
    IF ok
    THEN [state EXCEPT !.authenticated = TRUE, !.username = username,
                       !.succeeded = @ \cup {username}]
    ELSE state

\* What the page shows of st.session_state.
Shown(state) == [authenticated |-> state.authenticated, username |-> state.username]

\* The login form of show_auth_page, which main() shows when not authenticated.
Login(username, password) ==
    /\ ops < MaxOps
    /\ ops' = ops + 1
    /\ ~session_state.authenticated
    /\ session_state' = AfterLogin(session_state, username,
                                   authenticate_user(usersFile, username, password))
    /\ lastOp' = [Op("login", username, "", "", <<>>,
                     IF authenticate_user(usersFile, username, password)
                     THEN "true" ELSE "false", "none")
                    EXCEPT !.before = {Shown(session_state)}]
    /\ UNCHANGED <<backend, pgForeignKey, pgUsers, pgResults, mgUsable, mgUsers,
                   mgResults, jsData, jsFile, usersFile, jsOther, calls>>
    /\ UNCHANGED <<user_data, metric, csvIn, csvOut>>

\* The logout button of show_main_app, which main() shows when authenticated.
Logout ==
    /\ ops < MaxOps
    /\ ops' = ops + 1
    /\ session_state.authenticated
    /\ session_state' = [session_state EXCEPT !.authenticated = FALSE, !.username = "None"]
    /\ lastOp' = [Op("logout", session_state.username, "", "", <<>>, "none", "none")
                    EXCEPT !.before = {Shown(session_state)}]
    /\ UNCHANGED <<backend, pgForeignKey, pgUsers, pgResults, mgUsable, mgUsers,
                   mgResults, jsData, jsFile, usersFile, jsOther, calls>>
    /\ UNCHANGED <<user_data, metric, csvIn, csvOut>>

\* main(): the page a rerun of the script shows.
Render ==
    /\ ops < MaxOps
    /\ ops' = ops + 1
    /\ lastOp' = Op("render", "", "", "", <<>>,
                    IF ~session_state.authenticated THEN "auth" ELSE "main", "none")
    /\ UNCHANGED <<backend, pgForeignKey, pgUsers, pgResults, mgUsable, mgUsers,
                   mgResults, jsData, jsFile, usersFile, sessionVars>>
    /\ UNCHANGED <<user_data, metric, csvIn, csvOut>>

LoginNext ==
    \/ \E u \in Users, form \in SignUps : SignUp(u, form)
    \/ \E username \in LoginNames, password \in Passwords : Login(username, password)
    \/ Logout
    \/ Render

LoginInit == Init /\ backend = "json"

SpecLogin == LoginInit /\ [][LoginNext]_vars

\* C27: whenever the session is authenticated its username is not null and is a
\* name for which authenticate_user succeeded in this session; the main app is
\* shown only when authenticated; logout leaves authenticated False and the
\* username None; a failed login leaves both as they were.
C27_SessionInvariant ==
    /\ session_state.authenticated =>
          /\ session_state.username # "None"
          /\ session_state.username \in session_state.succeeded
    /\ (lastOp.op = "render" /\ lastOp.ret = "main") => session_state.authenticated
    /\ (lastOp.op = "logout") =>
          ~session_state.authenticated /\ session_state.username = "None"
    /\ (lastOp.op = "login" /\ lastOp.ret = "false") =>
          lastOp.before = {Shown(session_state)}

\* C27 witness: a login for an existing account failed on a wrong password.
C27_Witness ==
    /\ lastOp.op = "login" /\ lastOp.ret = "false"
    /\ lastOp.user \in DOMAIN usersFile
    /\ ~session_state.authenticated

====
